---- MODULE Spec2Model ----
(***************************************************************************)
(* Model of the onetools-py backend: the query execution service, the      *)
(* query-form service (SQL template parameterisation, execution history,   *)
(* form CRUD) and the query-forms endpoints.                               *)
(*                                                                         *)
(* Python strings are TLA+ strings handled character by character          *)
(* (SubSeq / Len / \o); Python regular expressions are small syntax trees  *)
(* interpreted by a backtracking matcher with re's leftmost, greedy        *)
(* semantics.                                                              *)
(***************************************************************************)
EXTENDS Integers, Sequences, FiniteSets, TLC

\* one call of _build_parameterized_sql
VARIABLES b_template, b_params, b_pc, b_substituted, b_sql

buildVars == <<b_template, b_params, b_pc, b_substituted, b_sql>>

\* one call of QueryService.execute_query
VARIABLES q_sql, q_server, q_pc, q_route, q_called, q_returned, q_response

queryVars == <<q_sql, q_server, q_pc, q_route, q_called, q_returned, q_response>>

\* the query_forms and query_form_history tables, the UTC clock, and the
\* requests being handled by the query-forms endpoints
VARIABLES forms, history, clock, requests, initial_forms

formVars == <<forms, history, clock, requests, initial_forms>>

\* the database_servers table by id and the system_settings table by key
\* (None where there is no row), and the last configuration call handled
VARIABLES servers, settings, cfg_call

configVars == <<servers, settings, cfg_call>>

\* the saved_queries table in insertion order, and the last save handled
VARIABLES saved_queries, saved_call

savedVars == <<saved_queries, saved_call>>

\* one run of a schema analyzer: which analyzer, the views of the catalog
\* with the names each definition refers to, the names the analysed SQL
\* refers to, the loops in progress (innermost first), the names marked as
\* processed, and the objects reported so far
VARIABLES sa_mode, sa_views, sa_input, sa_stack, sa_processed, sa_out

schemaVars == <<sa_mode, sa_views, sa_input, sa_stack, sa_processed, sa_out>>

\* the menu_configurations table, the last id its AUTOINCREMENT gave out, and the last menu operation handled
VARIABLES menus, menu_seq, menu_call

menuVars == <<menus, menu_seq, menu_call>>

\* one call of SQLParameterParser.parse_sql_parameters: the template, and
\* the parse result (None until the call has returned)
VARIABLES p_template, p_result

parseVars == <<p_template, p_result>>

\* one operation of SQLServerQueryManager on a raw pyodbc connection: the
\* operation, the statements of its SQL, its position, the connection, the
\* statements whose changes are in the open transaction, those committed
\* on the server, the results gathered and the outcome
VARIABLES d_op, d_batch, d_pc, d_conn, d_pending, d_remote, d_results, d_outcome

driverVars == <<d_op, d_batch, d_pc, d_conn, d_pending, d_remote, d_results, d_outcome>>

\* the event loop and its requests: each request task with its kind and
\* position, the task that occupies the loop thread (0: none), the tasks
\* whose function runs on a worker thread of the default executor, and the
\* remote queries that never return
VARIABLES l_tasks, l_loop, l_workers, l_hung

loopVars == <<l_tasks, l_loop, l_workers, l_hung>>

\* the process-wide SchemaAnalyzer: its _analyzed_objects set, and the
\* analyze_sql_schema calls in progress on it
VARIABLES sh_analyzed, sh_calls

sharedVars == <<sh_analyzed, sh_calls>>

coreVars == <<buildVars, queryVars, formVars>>

extraVars == <<configVars, savedVars, schemaVars, menuVars, parseVars, driverVars, loopVars, sharedVars>>

nonConfigVars == <<coreVars, savedVars, schemaVars, menuVars, parseVars, driverVars, loopVars, sharedVars>>

nonSavedVars == <<coreVars, configVars, schemaVars, menuVars, parseVars, driverVars, loopVars, sharedVars>>

nonSchemaVars == <<coreVars, configVars, savedVars, menuVars, parseVars, driverVars, loopVars, sharedVars>>

nonMenuVars == <<coreVars, configVars, savedVars, schemaVars, parseVars, driverVars, loopVars, sharedVars>>

nonParseVars == <<coreVars, configVars, savedVars, schemaVars, menuVars, driverVars, loopVars, sharedVars>>

nonDriverVars == <<coreVars, configVars, savedVars, schemaVars, menuVars, parseVars, loopVars, sharedVars>>

nonLoopVars == <<coreVars, configVars, savedVars, schemaVars, menuVars, parseVars, driverVars, sharedVars>>

nonSharedVars == <<coreVars, configVars, savedVars, schemaVars, menuVars, parseVars, driverVars, loopVars>>

vars == <<coreVars, extraVars>>

\* no call of _build_parameterized_sql is in progress
BuildIdle ==
  /\ b_template = ""
  /\ b_params = <<>>
  /\ b_pc = "idle"
  /\ b_substituted = ""
  /\ b_sql = ""

\* no call of execute_query is in progress
QueryIdle ==
  /\ q_sql = ""
  /\ q_server = [t |-> "none"]
  /\ q_pc = "idle"
  /\ q_route = ""
  /\ q_called = ""
  /\ q_returned = <<>>
  /\ q_response = [t |-> "none"]

\* no query-forms request is being handled
FormsIdle ==
  /\ forms = <<>>
  /\ history = <<>>
  /\ clock = 0
  /\ requests = <<>>
  /\ initial_forms = <<>>

\* no configuration call is being handled
ConfigIdle ==
  /\ servers = <<>>
  /\ settings = <<>>
  /\ cfg_call = [op |-> "none"]

\* no saved query is being handled
SavedIdle ==
  /\ saved_queries = <<>>
  /\ saved_call = [op |-> "none"]

\* no schema analysis is running
SchemaIdle ==
  /\ sa_mode = "none"
  /\ sa_views = <<>>
  /\ sa_input = {}
  /\ sa_stack = <<>>
  /\ sa_processed = {}
  /\ sa_out = <<>>

\* no menu operation is being handled
MenuIdle ==
  /\ menus = {}
  /\ menu_seq = 0
  /\ menu_call = [op |-> "none"]

\* no call of parse_sql_parameters is in progress
ParseIdle ==
  /\ p_template = ""
  /\ p_result = [t |-> "none"]

\* no SQLServerQueryManager operation is in progress
DriverIdle ==
  /\ d_op = "none"
  /\ d_batch = <<>>
  /\ d_pc = "idle"
  /\ d_conn = "none"
  /\ d_pending = {}
  /\ d_remote = {}
  /\ d_results = <<>>
  /\ d_outcome = "none"

\* no request is being handled
LoopIdle ==
  /\ l_tasks = <<>>
  /\ l_loop = 0
  /\ l_workers = {}
  /\ l_hung = {}

\* no analyze_sql_schema call is in progress on the shared analyzer
SharedIdle ==
  /\ sh_analyzed = {}
  /\ sh_calls = <<>>

CoreIdle == BuildIdle /\ QueryIdle /\ FormsIdle

ExtraIdle == ConfigIdle /\ SavedIdle /\ SchemaIdle /\ MenuIdle /\ ParseIdle /\ DriverIdle /\ LoopIdle /\ SharedIdle

NonConfigIdle == CoreIdle /\ SavedIdle /\ SchemaIdle /\ MenuIdle /\ ParseIdle /\ DriverIdle /\ LoopIdle /\ SharedIdle

NonSavedIdle == CoreIdle /\ ConfigIdle /\ SchemaIdle /\ MenuIdle /\ ParseIdle /\ DriverIdle /\ LoopIdle /\ SharedIdle

NonSchemaIdle == CoreIdle /\ ConfigIdle /\ SavedIdle /\ MenuIdle /\ ParseIdle /\ DriverIdle /\ LoopIdle /\ SharedIdle

NonMenuIdle == CoreIdle /\ ConfigIdle /\ SavedIdle /\ SchemaIdle /\ ParseIdle /\ DriverIdle /\ LoopIdle /\ SharedIdle

NonParseIdle == CoreIdle /\ ConfigIdle /\ SavedIdle /\ SchemaIdle /\ MenuIdle /\ DriverIdle /\ LoopIdle /\ SharedIdle

NonDriverIdle == CoreIdle /\ ConfigIdle /\ SavedIdle /\ SchemaIdle /\ MenuIdle /\ ParseIdle /\ LoopIdle /\ SharedIdle

NonLoopIdle == CoreIdle /\ ConfigIdle /\ SavedIdle /\ SchemaIdle /\ MenuIdle /\ ParseIdle /\ DriverIdle /\ SharedIdle

NonSharedIdle == CoreIdle /\ ConfigIdle /\ SavedIdle /\ SchemaIdle /\ MenuIdle /\ ParseIdle /\ DriverIdle /\ LoopIdle

(***************************************************************************)
(* Python str primitives                                                   *)
(***************************************************************************)

Ch(s, i) == SubSeq(s, i, i)

LowerLetters ==
  {"a","b","c","d","e","f","g","h","i","j","k","l","m",
   "n","o","p","q","r","s","t","u","v","w","x","y","z"}

UpperLetters ==
  {"A","B","C","D","E","F","G","H","I","J","K","L","M",
   "N","O","P","Q","R","S","T","U","V","W","X","Y","Z"}

Digits == {"0","1","2","3","4","5","6","7","8","9"}

UpperOf ==
  [c \in LowerLetters |->
     CASE c = "a" -> "A" [] c = "b" -> "B" [] c = "c" -> "C" [] c = "d" -> "D"
       [] c = "e" -> "E" [] c = "f" -> "F" [] c = "g" -> "G" [] c = "h" -> "H"
       [] c = "i" -> "I" [] c = "j" -> "J" [] c = "k" -> "K" [] c = "l" -> "L"
       [] c = "m" -> "M" [] c = "n" -> "N" [] c = "o" -> "O" [] c = "p" -> "P"
       [] c = "q" -> "Q" [] c = "r" -> "R" [] c = "s" -> "S" [] c = "t" -> "T"
       [] c = "u" -> "U" [] c = "v" -> "V" [] c = "w" -> "W" [] c = "x" -> "X"
       [] c = "y" -> "Y" [] c = "z" -> "Z"]

UpperCh(c) == IF c \in LowerLetters THEN UpperOf[c] ELSE c

\* \s of the re module and the whitespace of str.strip / str.split
IsSpace(c) == c \in {" ", "\t", "\n", "\r"}

\* \w of the re module
IsWord(c) == c \in LowerLetters \cup UpperLetters \cup Digits \cup {"_"}

\* F(v) with v computed once and then held as a value: a Python assignment
\* to a local followed by the code that uses the local
Bind(v, F(_)) == CHOOSE r \in {F(b) : b \in {v}} : TRUE

\* the least element of a non-empty set of integers
Least(S) == CHOOSE q \in S : \A r \in S : q <= r

\* the greatest element of a non-empty set of integers
Greatest(S) == CHOOSE q \in S : \A r \in S : r <= q

\* the first position q >= p of s that satisfies Stop, or Len(s) + 1
FirstFrom(s, p, Stop(_)) ==
  CHOOSE q \in p..(Len(s) + 1) :
    /\ (q = Len(s) + 1 \/ Stop(q))
    /\ \A r \in p..(q - 1) : ~Stop(r)

\* s.upper()
RECURSIVE upper(_)
upper(s) ==
  IF Len(s) = 0 THEN ""
  ELSE IF Len(s) = 1 THEN UpperCh(s)
  ELSE LET h == Len(s) \div 2
       IN  upper(SubSeq(s, 1, h)) \o upper(SubSeq(s, h + 1, Len(s)))

\* s[p:p+len(t)] == t
MatchesAt(s, p, t) ==
  /\ p + Len(t) - 1 <= Len(s)
  /\ SubSeq(s, p, p + Len(t) - 1) = t

\* case-insensitive form of MatchesAt (re.IGNORECASE on a literal)
MatchesAtIC(s, p, t) ==
  /\ p + Len(t) - 1 <= Len(s)
  /\ \A i \in 1..Len(t) : UpperCh(Ch(s, p + i - 1)) = UpperCh(Ch(t, i))

startswith(s, t) == MatchesAt(s, 1, t)

\* t in s
Contains(s, t) == \E p \in 1..(Len(s) + 1) : MatchesAt(s, p, t)

lstrip(s) ==
  LET NonSpace(q) == ~IsSpace(Ch(s, q))
  IN  SubSeq(s, FirstFrom(s, 1, NonSpace), Len(s))

rstrip(s) ==
  LET ends == {q \in 0..Len(s) : q = 0 \/ ~IsSpace(Ch(s, q))}
  IN  SubSeq(s, 1, Greatest(ends))

strip(s) == lstrip(rstrip(s))

\* s.replace(old, new): left to right, non-overlapping (old is not empty)
RECURSIVE ReplaceFrom(_, _, _, _)
ReplaceFrom(s, old, new, p) ==
  LET Hit(q) == MatchesAt(s, q, old)
      q == FirstFrom(s, p, Hit)
  IN  IF q > Len(s) THEN SubSeq(s, p, Len(s))
      ELSE SubSeq(s, p, q - 1) \o new \o ReplaceFrom(s, old, new, q + Len(old))

replace(s, old, new) == ReplaceFrom(s, old, new, 1)

\* s.split(sep) for a one-character separator
RECURSIVE SplitFrom(_, _, _)
SplitFrom(s, sep, p) ==
  LET IsSep(q) == Ch(s, q) = sep
      q == FirstFrom(s, p, IsSep)
  IN  IF q > Len(s) THEN <<SubSeq(s, p, Len(s))>>
      ELSE <<SubSeq(s, p, q - 1)>> \o SplitFrom(s, sep, q + 1)

split(s, sep) == SplitFrom(s, sep, 1)

\* s.split(): the whitespace-separated words of s
RECURSIVE WordsFrom(_, _)
WordsFrom(s, p) ==
  LET NonSpace(q) == ~IsSpace(Ch(s, q))
      Space(q) == IsSpace(Ch(s, q))
      b == FirstFrom(s, p, NonSpace)
      e == FirstFrom(s, b, Space)
  IN  IF b > Len(s) THEN <<>>
      ELSE <<SubSeq(s, b, e - 1)>> \o WordsFrom(s, e)

words(s) == WordsFrom(s, 1)

RECURSIVE join(_, _)
join(sep, parts) ==
  IF parts = <<>> THEN ""
  ELSE IF Len(parts) = 1 THEN parts[1]
  ELSE LET h == Len(parts) \div 2
       IN  join(sep, SubSeq(parts, 1, h)) \o sep
             \o join(sep, SubSeq(parts, h + 1, Len(parts)))

\* ' '.join(s.split())
NormalizeSpace(s) == join(" ", words(s))

(***************************************************************************)
(* Python re: syntax trees and a backtracking matcher                       *)
(***************************************************************************)

\* a literal, compared case-insensitively (every re.sub below passes
\* re.IGNORECASE; the literals of the one re.findall have no letters)
Lit(t) == [k |-> "lit", s |-> t]

\* X+ and X* for a character class X (greedy)
Plus(cls) == [k |-> "rep", c |-> cls, min |-> 1]

Star(cls) == [k |-> "rep", c |-> cls, min |-> 0]

\* (t1|t2|...) over literals
Alt(ts) == [k |-> "alt", a |-> ts]

\* exactly one character of class X
One(cls) == [k |-> "one", c |-> cls]

\* $
Eos == [k |-> "eos"]

\* (?=r1|r2|...): zero-width lookahead over alternative sub-expressions
Look(rs) == [k |-> "look", a |-> rs]

\* X? for a character class X (greedy)
Opt(cls) == [k |-> "opt", c |-> cls]

\* character classes: \s, \w, [^)], [^'], ['"], . (without re.DOTALL)
InClass(c, cls) ==
  CASE cls = "s" -> IsSpace(c)
    [] cls = "w" -> IsWord(c)
    [] cls = "notrp" -> c # ")"
    [] cls = "notq" -> c # "'"
    [] cls = "quote" -> c \in {"'", "\""}
    [] cls = "any" -> c # "\n"

\* the length of the longest run of class cls that starts at p
RunLen(s, p, cls) ==
  LET Outside(q) == ~InClass(Ch(s, q), cls)
  IN  FirstFrom(s, p, Outside) - p

\* $ without re.MULTILINE: end of string, or just before a final newline
AtEnd(s, p) == p = Len(s) + 1 \/ (p = Len(s) /\ Ch(s, p) = "\n")

\* MatchFrom(re, k, s, p): the position just after the match of re[k..] that
\* starts at p, following re's priority order; 0 when there is no match.
\* A greedy repetition takes the longest run for which the rest matches.
RECURSIVE MatchFrom(_, _, _, _)
RECURSIVE TryAlt(_, _, _, _, _)
TryRep(re, k, s, p) ==
  LET run == RunLen(s, p, re[k].c)
      ok == {n \in re[k].min..run : MatchFrom(re, k + 1, s, p + n) # 0}
  IN  IF ok = {} THEN 0 ELSE MatchFrom(re, k + 1, s, p + Greatest(ok))

TryAlt(re, k, s, p, i) ==
  IF i > Len(re[k].a) THEN 0
  ELSE LET t == re[k].a[i]
           r == IF MatchesAtIC(s, p, t)
                THEN MatchFrom(re, k + 1, s, p + Len(t)) ELSE 0
       IN  IF r # 0 THEN r ELSE TryAlt(re, k, s, p, i + 1)

MatchFrom(re, k, s, p) ==
  IF k > Len(re) THEN p
  ELSE LET e == re[k] IN
    CASE e.k = "lit" ->
           IF MatchesAtIC(s, p, e.s)
           THEN MatchFrom(re, k + 1, s, p + Len(e.s)) ELSE 0
      [] e.k = "rep" -> TryRep(re, k, s, p)
      [] e.k = "alt" -> TryAlt(re, k, s, p, 1)
      [] e.k = "one" ->
           IF p <= Len(s) /\ InClass(Ch(s, p), e.c)
           THEN MatchFrom(re, k + 1, s, p + 1) ELSE 0
      [] e.k = "eos" ->
           IF AtEnd(s, p) THEN MatchFrom(re, k + 1, s, p) ELSE 0
      [] e.k = "opt" ->
           IF p <= Len(s) /\ InClass(Ch(s, p), e.c) /\ MatchFrom(re, k + 1, s, p + 1) # 0
           THEN MatchFrom(re, k + 1, s, p + 1)
           ELSE MatchFrom(re, k + 1, s, p)
      [] e.k = "look" ->
           IF \E i \in 1..Len(e.a) : MatchFrom(e.a[i], 1, s, p) # 0
           THEN MatchFrom(re, k + 1, s, p) ELSE 0

\* re.sub(re, repl, s) for a literal repl and a pattern that cannot match
\* the empty string
RECURSIVE SubFrom(_, _, _, _)
SubFrom(re, repl, s, p) ==
  LET Hit(q) == MatchFrom(re, 1, s, q) # 0
      q == FirstFrom(s, p, Hit)
  IN  IF q > Len(s) THEN SubSeq(s, p, Len(s))
      ELSE SubSeq(s, p, q - 1) \o repl \o SubFrom(re, repl, s, MatchFrom(re, 1, s, q))

re_sub(re, repl, s) == SubFrom(re, repl, s, 1)

\* re.findall(re, s): the matched texts, left to right
RECURSIVE FindallFrom(_, _, _)
FindallFrom(re, s, p) ==
  LET Hit(q) == MatchFrom(re, 1, s, q) # 0
      q == FirstFrom(s, p, Hit)
      e == MatchFrom(re, 1, s, q)
  IN  IF q > Len(s) THEN <<>>
      ELSE <<SubSeq(s, q, e - 1)>> \o FindallFrom(re, s, e)

re_findall(re, s) == FindallFrom(re, s, 1)

\* re.search(re, s) is not None
re_search(re, s) == \E p \in 1..(Len(s) + 1) : MatchFrom(re, 1, s, p) # 0

(***************************************************************************)
(* Query-form service: _build_parameterized_sql                            *)
(***************************************************************************)

\* JSON parameter values as Python sees them
NoneV == [t |-> "none"]

StrV(x) == [t |-> "str", s |-> x]

IntV(x) == [t |-> "int", n |-> x]

BoolV(x) == [t |-> "bool", b |-> x]

\* a dict is a sequence of [name, val] entries in insertion order
DictHas(d, key) == \E i \in 1..Len(d) : d[i].name = key

DictSet(d, key, v) ==
  IF DictHas(d, key)
  THEN [i \in 1..Len(d) |-> IF d[i].name = key THEN [name |-> key, val |-> v] ELSE d[i]]
  ELSE Append(d, [name |-> key, val |-> v])

\* normalized_params: every name starts with @
RECURSIVE normalized_params(_)
normalized_params(params) ==
  IF params = <<>> THEN <<>>
  ELSE LET n == Len(params)
           e == params[n]
           normalized_name == IF startswith(e.name, "@") THEN e.name ELSE "@" \o e.name
       IN  DictSet(normalized_params(SubSeq(params, 1, n - 1)), normalized_name, e.val)

\* param_value is None or param_value == '' or (str and strip() == '')
IsEmptyValue(v) ==
  \/ v.t = "none"
  \/ (v.t = "str" /\ (v.s = "" \/ strip(v.s) = ""))

\* empty_params: the names, in dict order
empty_params(norm) ==
  LET KeepEmpty(e) == IsEmptyValue(e.val)
      es == SelectSeq(norm, KeepEmpty)
  IN  [i \in 1..Len(es) |-> es[i].name]

\* valid_params: the dict of the non-empty entries
valid_params(norm) ==
  LET KeepValid(e) == ~IsEmptyValue(e.val)
  IN  SelectSeq(norm, KeepValid)

\* (?=\s|$)
LookSpaceOrEnd == Look(<< <<One("s")>>, <<Eos>> >>)

\* \s+KW\s+\([^)]*PH[^)]*\)   and the WHERE form without the leading \s+
ParenCond(lead, ph) ==
  lead \o <<Plus("s"), Lit("("), Star("notrp"), Lit(ph), Star("notrp"), Lit(")")>>

\* \s+KW\s+\w+\s+LIKE\s+'[^']*PH[^']*'
LikeCond(lead, ph) ==
  lead \o <<Plus("s"), Plus("w"), Plus("s"), Lit("LIKE"), Plus("s"),
            Lit("'"), Star("notq"), Lit(ph), Star("notq"), Lit("'")>>

\* \s+KW\s+\w+\s*=\s*PH(?=\s|$)
EqCond(lead, ph) ==
  lead \o <<Plus("s"), Plus("w"), Star("s"), Lit("="), Star("s"), Lit(ph),
            LookSpaceOrEnd>>

LeadAnd == <<Plus("s"), Lit("AND")>>

LeadOr == <<Plus("s"), Lit("OR")>>

LeadWhere == <<Lit("WHERE")>>

\* the pattern list without its WHERE-anchored forms
EmptyParamPatternsNoWhere(ph) ==
  << ParenCond(LeadAnd, ph), ParenCond(LeadOr, ph),
     LikeCond(LeadAnd, ph), LikeCond(LeadOr, ph),
     EqCond(LeadAnd, ph), EqCond(LeadOr, ph) >>

\* the pattern list applied for each empty parameter
EmptyParamPatterns(ph) ==
  << ParenCond(LeadAnd, ph), ParenCond(LeadOr, ph),
     LikeCond(LeadAnd, ph), LikeCond(LeadOr, ph),
     EqCond(LeadAnd, ph), EqCond(LeadOr, ph),
     ParenCond(LeadWhere, ph), LikeCond(LeadWhere, ph), EqCond(LeadWhere, ph) >>

\* the pattern list applied for each placeholder left after substitution
RemainingParamPatterns(ph) ==
  << LikeCond(LeadAnd, ph), LikeCond(LeadOr, ph), LikeCond(LeadWhere, ph),
     EqCond(LeadAnd, ph), EqCond(LeadOr, ph), EqCond(LeadWhere, ph) >>

\* for pattern in patterns: sql = re.sub(pattern, '', sql)
RECURSIVE RemoveAll(_, _)
RemoveAll(patterns, sql) ==
  IF patterns = <<>> THEN sql
  ELSE Bind(re_sub(Head(patterns), "", sql),
            LAMBDA next : RemoveAll(Tail(patterns), next))

\* for param_name in empty_params: remove its conditions
RECURSIVE RemoveEmptyConditions(_, _)
RemoveEmptyConditions(names, sql) ==
  IF names = <<>> THEN sql
  ELSE Bind(RemoveAll(EmptyParamPatterns(Head(names)), sql),
            LAMBDA next : RemoveEmptyConditions(Tail(names), next))

\* (?=ORDER\s+BY|GROUP\s+BY|HAVING|LIMIT|$)
LookClauseOrEnd ==
  Look(<< <<Lit("ORDER"), Plus("s"), Lit("BY")>>,
          <<Lit("GROUP"), Plus("s"), Lit("BY")>>,
          <<Lit("HAVING")>>, <<Lit("LIMIT")>>, <<Eos>> >>)

\* \s+A\s+B\s+
Doubled(a, b) == <<Plus("s"), Lit(a), Plus("s"), Lit(b), Plus("s")>>

\* WHERE\s+(AND|OR)\s+
WhereThenOperator == <<Lit("WHERE"), Plus("s"), Alt(<<"AND", "OR">>), Plus("s")>>

\* WHERE\s*$
WhereAtEnd == <<Lit("WHERE"), Star("s"), Eos>>

\* for each [re, repl] of steps, in order: sql = re.sub(re, repl, sql)
RECURSIVE SubAll(_, _)
SubAll(steps, sql) ==
  IF steps = <<>> THEN sql
  ELSE Bind(re_sub(Head(steps).re, Head(steps).repl, sql),
            LAMBDA next : SubAll(Tail(steps), next))

\* the clean-up of surplus AND/OR and of an emptied WHERE
CleanSteps ==
  << [re |-> Doubled("AND", "AND"), repl |-> " AND "],
     [re |-> Doubled("OR", "OR"), repl |-> " OR "],
     [re |-> Doubled("AND", "OR"), repl |-> " OR "],
     [re |-> Doubled("OR", "AND"), repl |-> " AND "],
     [re |-> WhereThenOperator, repl |-> "WHERE "],
     [re |-> <<Plus("s"), Alt(<<"AND", "OR">>), Star("s"), LookClauseOrEnd>>,
      repl |-> ""],
     [re |-> <<Lit("WHERE"), Plus("s"), LookClauseOrEnd>>, repl |-> ""],
     [re |-> WhereAtEnd, repl |-> ""] >>

CleanOperators(sql) == SubAll(CleanSteps, sql)

\* str(True), str(False)
PyStrBool(b) == IF b THEN "True" ELSE "False"

\* is_in_like: the placeholder stands inside a '%...%' literal
is_in_like(sql, param_name) ==
  \/ Contains(sql, "'%" \o param_name \o "%'")
  \/ Contains(sql, "'%" \o param_name)
  \/ Contains(sql, param_name \o "%'")
  \/ Contains(sql, "'%" \o param_name \o "'")

\* sql_value: the text substituted for a valid parameter.  The isinstance
\* tests run in the order str, (int, float), bool; a Python bool is an int.
sql_value(sql, param_name, v) ==
  IF v.t = "str"
  THEN LET escaped_value == replace(v.s, "'", "''")
       IN  IF is_in_like(sql, param_name) THEN escaped_value
           ELSE "'" \o escaped_value \o "'"
  ELSE IF v.t = "int" THEN ToString(v.n)
  ELSE PyStrBool(v.b)

\* for param_name, param_value in valid_params.items(): sql.replace(...)
RECURSIVE SubstituteValid(_, _)
SubstituteValid(valid, sql) ==
  IF valid = <<>> THEN sql
  ELSE Bind(replace(sql, Head(valid).name,
                    sql_value(sql, Head(valid).name, Head(valid).val)),
            LAMBDA next : SubstituteValid(Tail(valid), next))

\* @\w+
PlaceholderToken == <<Lit("@"), Plus("w")>>

remaining_params(sql) == re_findall(PlaceholderToken, sql)

\* for remaining_param in remaining_params: if not in valid_params, remove
RECURSIVE RemoveRemainingConditions(_, _, _)
RemoveRemainingConditions(remaining, valid, sql) ==
  IF remaining = <<>> THEN sql
  ELSE Bind(IF ~DictHas(valid, Head(remaining))
            THEN RemoveAll(RemainingParamPatterns(Head(remaining)), sql)
            ELSE sql,
            LAMBDA next : RemoveRemainingConditions(Tail(remaining), valid, next))

\* the SQL after substitution and whitespace clean-up
SubstitutedSql(sql_template, params) ==
  Bind(normalized_params(params), LAMBDA norm :
    Bind(RemoveEmptyConditions(empty_params(norm), sql_template), LAMBDA removed :
      Bind(CleanOperators(removed), LAMBDA cleaned :
        Bind(SubstituteValid(valid_params(norm), cleaned), LAMBDA replaced :
          NormalizeSpace(replaced)))))

\* the clean-up after the final safety pass
FinalCleanSteps ==
  << [re |-> WhereThenOperator, repl |-> "WHERE "],
     [re |-> WhereAtEnd, repl |-> ""] >>

\* the final safety pass over the substituted SQL
FinalPass(sql, valid) ==
  Bind(remaining_params(sql), LAMBDA remaining :
    Bind(RemoveRemainingConditions(remaining, valid, sql), LAMBDA removed :
      Bind(SubAll(FinalCleanSteps, removed), LAMBDA cleaned :
        NormalizeSpace(cleaned))))

_build_parameterized_sql(sql_template, params) ==
  Bind(SubstitutedSql(sql_template, params), LAMBDA substituted :
    FinalPass(substituted, valid_params(normalized_params(params))))

(***************************************************************************)
(* _build_parameterized_sql applied to templates and parameter maps        *)
(***************************************************************************)

\* integer parameter values range over 0..MaxIntValue
MaxIntValue == 1

TplCompound ==
  "SELECT * FROM t WHERE (@name IS NULL OR name LIKE '%@name%') AND status=@status"

TplLikeFirst == "SELECT * FROM t WHERE name LIKE '%@name%' AND status = @status"

TplLikeLast == "SELECT * FROM t WHERE status = @status AND name LIKE '%@name%'"

TplParenLast == "SELECT * FROM t WHERE status = @status OR (name = @name) ORDER BY id"

TplLines == "SELECT * FROM t\nWHERE name = @name\n  AND status = @status"

TplCompare == "SELECT * FROM t WHERE active = @status AND age >= @name"

TplLikeAndBare ==
  "SELECT * FROM t WHERE name LIKE '%@name%' OR code = @name AND status = @status"

Templates ==
  {TplCompound, TplLikeFirst, TplLikeLast, TplParenLast, TplLines, TplCompare,
   TplLikeAndBare}

\* the values one parameter can be given; Absent: the key is not in the map
Absent == [t |-> "absent"]

ParamValues ==
  {Absent, NoneV, StrV(""), StrV("A"), StrV("O'Neil"), BoolV(TRUE), BoolV(FALSE)}
    \cup {IntV(n) : n \in 0..MaxIntValue}

Entry(name, v) == IF v = Absent THEN <<>> ELSE <<[name |-> name, val |-> v]>>

\* request.params with the keys "name" and "@status"
ParamsOf(nameValue, statusValue) ==
  Entry("name", nameValue) \o Entry("@status", statusValue)

DictGet(d, key) ==
  IF DictHas(d, key) THEN (CHOOSE e \in {d[i] : i \in 1..Len(d)} : e.name = key).val
  ELSE Absent

BuildInit ==
  /\ b_template \in Templates
  /\ b_params \in {ParamsOf(a, b) : a \in ParamValues, b \in ParamValues}
  /\ b_pc = "call"
  /\ b_substituted = ""
  /\ b_sql = ""
  /\ QueryIdle
  /\ FormsIdle
  /\ ExtraIdle

\* normalisation, classification, elision, clean-up, substitution and the
\* whitespace clean-up that follows it
Substitute ==
  /\ b_pc = "call"
  /\ b_substituted' = SubstitutedSql(b_template, b_params)
  /\ b_pc' = "substituted"
  /\ UNCHANGED <<b_template, b_params, b_sql>>
  /\ UNCHANGED <<queryVars, formVars, extraVars>>

\* the final safety pass and the return
FinalSweep ==
  /\ b_pc = "substituted"
  /\ b_sql' = FinalPass(b_substituted, valid_params(normalized_params(b_params)))
  /\ b_pc' = "returned"
  /\ UNCHANGED <<b_template, b_params, b_substituted>>
  /\ UNCHANGED <<queryVars, formVars, extraVars>>

BuildNext == Substitute \/ FinalSweep

BuildSpec == BuildInit /\ [][BuildNext]_vars

(***************************************************************************)
(* Properties of _build_parameterized_sql                                  *)
(***************************************************************************)

ParamsEmptyNameStatusA == ParamsOf(StrV(""), StrV("A"))

BuiltCompoundExample ==
  /\ b_pc = "returned"
  /\ b_template = TplCompound
  /\ b_params = ParamsEmptyNameStatusA

\* C3: for the template TplCompound with name = "" and status = "A", the
\* built SQL has the whole @name clause removed, has @status replaced by 'A',
\* contains no "WHERE AND" and does not end in a boolean operator.
C3_CompoundClauseElided ==
  BuiltCompoundExample =>
    /\ ~Contains(b_sql, "@name")
    /\ ~Contains(b_sql, "IS NULL")
    /\ ~Contains(b_sql, "LIKE")
    /\ ~Contains(b_sql, "@status")
    /\ Contains(b_sql, "status='A'")
    /\ ~re_search(<<Lit("WHERE"), Plus("s"), Lit("AND")>>, b_sql)
    /\ ~re_search(<<Plus("s"), Alt(<<"AND", "OR">>), Star("s"), Eos>>, b_sql)

\* the example has been built; the SQL it yields
C3_Witness == BuiltCompoundExample /\ b_sql = "SELECT * FROM t AND status='A'"

\* the three step-3 condition shapes, introduced by AND, OR or WHERE
Step3Shapes(ph) ==
  { ParenCond(lead, ph) : lead \in {LeadAnd, LeadOr, LeadWhere} }
    \cup { LikeCond(lead, ph) : lead \in {LeadAnd, LeadOr, LeadWhere} }
    \cup { EqCond(lead, ph) : lead \in {LeadAnd, LeadOr, LeadWhere} }

\* C4: in the SQL that is returned, no condition of a step-3 shape references
\* a placeholder that was left after substitution and has no valid value.
C4_UnsuppliedConditionsRemoved ==
  b_pc = "returned" =>
    LET left == remaining_params(b_substituted)
        valid == valid_params(normalized_params(b_params))
    IN  \A i \in 1..Len(left) :
          ~DictHas(valid, left[i]) =>
            \A shape \in Step3Shapes(left[i]) : ~re_search(shape, b_sql)

\* the text "1" / "0" of a boolean
BitText(b) == IF b THEN "1" ELSE "0"

\* C5: a boolean value given for @status is substituted as 1 (true) or
\* 0 (false): the status comparison of the built SQL reads "= 1" / "= 0".
C5_BooleanAsBit ==
  LET v == DictGet(b_params, "@status")
  IN  (b_pc = "returned" /\ v # Absent /\ v.t = "bool") =>
        \/ Contains(b_sql, "= " \o BitText(v.b))
        \/ Contains(b_sql, "=" \o BitText(v.b))

(***************************************************************************)
(* QueryService: statement splitting, classification and execute_query     *)
(***************************************************************************)

\* position q of s is inside a single-quoted string literal
InQuotes(s, q) == Cardinality({r \in 1..(q - 1) : Ch(s, r) = "'"}) % 2 = 1

\* sqlparse.split(sql): the statements of the batch, each ending with its
\* semicolon; a semicolon inside a string literal ends nothing
RECURSIVE SqlparseSplitFrom(_, _)
SqlparseSplitFrom(sql, p) ==
  LET Ends(q) == Ch(sql, q) = ";" /\ ~InQuotes(sql, q)
      q == FirstFrom(sql, p, Ends)
  IN  IF q > Len(sql) THEN <<strip(SubSeq(sql, p, Len(sql)))>>
      ELSE <<strip(SubSeq(sql, p, q))>> \o SqlparseSplitFrom(sql, q + 1)

sqlparse_split(sql) == SqlparseSplitFrom(sql, 1)

\* the statements of raw_statements that are not empty once stripped
RECURSIVE cleaned_statements(_)
cleaned_statements(raw_statements) ==
  IF raw_statements = <<>> THEN <<>>
  ELSE LET cleaned_stmt == strip(Head(raw_statements))
       IN  (IF cleaned_stmt # "" THEN <<cleaned_stmt>> ELSE <<>>)
             \o cleaned_statements(Tail(raw_statements))

statement_keywords ==
  {"SELECT", "INSERT", "UPDATE", "DELETE", "CREATE", "DROP", "ALTER"}

\* the matches of \bkeyword\b in s, as start positions
WordMatches(s, keyword) ==
  {p \in 1..Len(s) :
     /\ MatchesAt(s, p, keyword)
     /\ (p = 1 \/ ~IsWord(Ch(s, p - 1)))
     /\ (p + Len(keyword) > Len(s) \/ ~IsWord(Ch(s, p + Len(keyword))))}

KeywordMatches(sql_upper) ==
  {<<keyword, p>> \in statement_keywords \X (1..Len(sql_upper)) :
     p \in WordMatches(sql_upper, keyword)}

_contains_multiple_statements(sql) ==
  Bind(upper(sql), LAMBDA sql_upper : Cardinality(KeywordMatches(sql_upper)) > 1)

statement_starters ==
  {"SELECT", "INSERT", "UPDATE", "DELETE", "CREATE", "DROP", "ALTER", "WITH",
   "EXEC", "EXECUTE"}

StartsStatement(line_upper) ==
  \E starter \in statement_starters :
    startswith(line_upper, starter \o " ") \/ line_upper = starter

_is_statement_start(line) == Bind(strip(upper(line)), StartsStatement)

\* the loop over the lines of a statement: potential_statements once the
\* last statement has been appended
RECURSIVE SplitByLines(_, _, _, _)
SplitByLines(lines, i, potential_statements, current_stmt) ==
  IF i > Len(lines)
  THEN IF strip(current_stmt) # ""
       THEN Append(potential_statements, strip(current_stmt))
       ELSE potential_statements
  ELSE Bind(strip(lines[i]), LAMBDA line :
         IF line = "" \/ startswith(line, "--")
         THEN SplitByLines(lines, i + 1, potential_statements, current_stmt)
         ELSE IF _is_statement_start(line) /\ strip(current_stmt) # ""
         THEN SplitByLines(lines, i + 1,
                           Append(potential_statements, strip(current_stmt)), line)
         ELSE SplitByLines(lines, i + 1, potential_statements,
                           IF current_stmt # "" THEN current_stmt \o " " \o line
                           ELSE line))

\* the re-split of a single statement that holds several statement keywords
ResplitSingle(statements) ==
  IF Len(statements) = 1 /\ _contains_multiple_statements(statements[1])
  THEN Bind(SplitByLines(split(statements[1], "\n"), 1, <<>>, ""),
            LAMBDA potential_statements :
              IF Len(potential_statements) > 1 THEN potential_statements
              ELSE statements)
  ELSE statements

_parse_sql_statements(sql) ==
  IF sql = "" \/ strip(sql) = "" THEN <<>>
  ELSE Bind(cleaned_statements(sqlparse_split(sql)), ResplitSingle)

\* the statement once its leading "--" comment lines are removed
RECURSIVE StripLeadingComments(_)
StripLeadingComments(statement) ==
  IF ~startswith(statement, "--") THEN statement
  ELSE LET IsNewline(q) == Ch(statement, q) = "\n"
           q == FirstFrom(statement, 1, IsNewline)
       IN  IF q > Len(statement) THEN ""
           ELSE StripLeadingComments(
                  upper(strip(SubSeq(statement, q + 1, Len(statement)))))

TypeOfFirstWord(first_word) ==
  IF first_word \in {"SELECT", "WITH"} THEN "SELECT"
  ELSE IF first_word \in {"INSERT", "UPDATE", "DELETE"} THEN "MODIFY"
  ELSE IF first_word \in {"CREATE", "DROP", "ALTER"} THEN "DDL"
  ELSE IF first_word \in {"EXEC", "EXECUTE", "CALL"} THEN "PROCEDURE"
  ELSE "OTHER"

_get_statement_type(statement) ==
  Bind(StripLeadingComments(upper(strip(statement))), LAMBDA stripped :
    IF stripped = "" THEN "UNKNOWN"
    ELSE Bind(words(stripped), LAMBDA ws :
           TypeOfFirstWord(IF ws # <<>> THEN ws[1] ELSE "")))

\* mutation: batches of SELECT statements only are not sent to the
\* multi-statement path
MultipleUnlessAllSelect(sql) ==
  Bind(_parse_sql_statements(sql), LAMBDA statements :
    /\ Len(statements) > 1
    /\ \E i \in 1..Len(statements) : _get_statement_type(statements[i]) # "SELECT")

_should_use_multiple_processing(sql) ==
  Bind(_parse_sql_statements(sql), LAMBDA statements : ~(Len(statements) <= 1))

\* which branch of execute_query handles sql
RouteOfStatements(statements) ==
  IF Len(statements) = 1
  THEN IF _get_statement_type(statements[1]) = "MODIFY" THEN "modify" ELSE "select"
  ELSE "empty"

Route(sql) ==
  IF _should_use_multiple_processing(sql) THEN "multiple"
  ELSE Bind(_parse_sql_statements(sql), RouteOfStatements)

\* Python truth of server_name
Truthy(v) == v # NoneV /\ v # StrV("")

\* the SQL Server manager method a branch calls
MultipleMethod(server_name) ==
  IF Truthy(server_name) THEN "execute_multiple_statements_with_server"
  ELSE "execute_multiple_statements_with_connection"

SingleMethod(server_name) ==
  IF Truthy(server_name) THEN "execute_query_with_server" ELSE "execute_query"

\* list(row.keys())
keys(row) == [k \in 1..Len(row) |-> row[k].name]

QueryResponse(data, columns, total, is_multiple) ==
  [t |-> "response", data |-> data, columns |-> columns, total |-> total,
   is_multiple |-> is_multiple]

\* the response of the branches that use the multi-statement path
MultipleResponse(results) == QueryResponse(results, <<>>, Len(results), TRUE)

\* the response of the single SELECT branch
SingleResponse(data) ==
  QueryResponse(data, IF data # <<>> THEN keys(data[1]) ELSE <<>>, Len(data), FALSE)

EmptyResponse == QueryResponse(<<>>, <<>>, 0, FALSE)

(***************************************************************************)
(* execute_query applied to SQL batches                                    *)
(***************************************************************************)

\* the multi-statement path returns at most MaxResults result entries
MaxResults == 2

\* a single SELECT returns at most MaxRows rows
MaxRows == 2

SqlOneSelect == "SELECT * FROM t"

SqlSelectOverLines == "SELECT a, b\nFROM t\nWHERE b = 1\nORDER BY a"

SqlTwoSelects == "SELECT a FROM t; SELECT b FROM u"

SqlTwoKinds == "INSERT INTO t VALUES (1);\nSELECT a FROM t;"

SqlUnterminated == "SELECT a FROM t\nSELECT b FROM u"

SqlSubqueryOnOwnLine == "SELECT a FROM t WHERE id IN (\nSELECT id FROM u)"

SqlUnionOverLines == "SELECT a FROM t\nUNION\nSELECT b FROM u"

SqlCteOneLine == "WITH c AS (SELECT 1 AS a) SELECT a FROM c"

SqlCommentFirst == "-- note\nSELECT * FROM t"

SqlSemicolonInString == "SELECT ';' AS s"

SqlOneUpdate == "UPDATE t SET a = 1"

SqlOneDdl == "CREATE TABLE x (a int);"

SqlProcedure == "EXEC sp_who"

SqlBlank == "  \n"

QuerySqls ==
  {SqlOneSelect, SqlSelectOverLines, SqlTwoSelects, SqlTwoKinds, SqlUnterminated,
   SqlSubqueryOnOwnLine, SqlUnionOverLines, SqlCteOneLine, SqlCommentFirst,
   SqlSemicolonInString, SqlOneUpdate, SqlOneDdl, SqlProcedure, SqlBlank, ""}

ServerNames == {NoneV, StrV("srv1")}

\* what the multi-statement path can return: a list of result entries
ResultEntries == {"resultset", "rowcount"}

MultipleResults == UNION {[1..n -> ResultEntries] : n \in 0..MaxResults}

\* what a single SELECT can return: rows with the same keys
ColumnLists == {<<"id">>, <<"id", "name">>}

RowOf(columns, i) == [k \in 1..Len(columns) |-> [name |-> columns[k], val |-> i]]

RowLists ==
  {[i \in 1..n |-> RowOf(columns, i)] : n \in 0..MaxRows, columns \in ColumnLists}

QueryInit ==
  /\ q_sql \in QuerySqls
  /\ q_server \in ServerNames
  /\ q_pc = "call"
  /\ q_route = ""
  /\ q_called = ""
  /\ q_returned = <<>>
  /\ q_response = NoneV
  /\ BuildIdle
  /\ FormsIdle
  /\ ExtraIdle

\* execute_query up to its await: the branch is chosen and the manager
\* method is called
Dispatch ==
  /\ q_pc = "call"
  /\ q_route' = Route(q_sql)
  /\ q_called' = CASE q_route' \in {"multiple", "modify"} -> MultipleMethod(q_server)
                   [] q_route' = "select" -> SingleMethod(q_server)
                   [] OTHER -> ""
  /\ q_pc' = "awaiting"
  /\ UNCHANGED <<q_sql, q_server, q_returned, q_response>>
  /\ UNCHANGED <<buildVars, formVars, extraVars>>

\* the multi-statement path returns its results (several statements, or one
\* INSERT/UPDATE/DELETE)
ReturnMultiple ==
  /\ q_pc = "awaiting"
  /\ q_route \in {"multiple", "modify"}
  /\ \E results \in MultipleResults :
       /\ q_returned' = results
       /\ q_response' = MultipleResponse(results)
  /\ q_pc' = "returned"
  /\ UNCHANGED <<q_sql, q_server, q_route, q_called>>
  /\ UNCHANGED <<buildVars, formVars, extraVars>>

\* the single statement returns its rows
ReturnSingle ==
  /\ q_pc = "awaiting"
  /\ q_route = "select"
  /\ \E data \in RowLists :
       /\ q_returned' = data
       /\ q_response' = SingleResponse(data)
  /\ q_pc' = "returned"
  /\ UNCHANGED <<q_sql, q_server, q_route, q_called>>
  /\ UNCHANGED <<buildVars, formVars, extraVars>>

\* no statement: the empty response, no manager call
ReturnEmpty ==
  /\ q_pc = "awaiting"
  /\ q_route = "empty"
  /\ q_response' = EmptyResponse
  /\ q_pc' = "returned"
  /\ UNCHANGED <<q_sql, q_server, q_route, q_called, q_returned>>
  /\ UNCHANGED <<buildVars, formVars, extraVars>>

\* the manager raises: the exception is logged and raised again
QueryRaises ==
  /\ q_pc = "awaiting"
  /\ q_route # "empty"
  /\ q_pc' = "raised"
  /\ UNCHANGED <<q_sql, q_server, q_route, q_called, q_returned, q_response>>
  /\ UNCHANGED <<buildVars, formVars, extraVars>>

QueryNext == Dispatch \/ ReturnMultiple \/ ReturnSingle \/ ReturnEmpty \/ QueryRaises

QuerySpec == QueryInit /\ [][QueryNext]_vars

(***************************************************************************)
(* Properties of execute_query                                             *)
(***************************************************************************)

MultipleMethods ==
  {"execute_multiple_statements_with_server",
   "execute_multiple_statements_with_connection"}

\* C1: when statement splitting yields more than one statement, execute_query
\* calls the multi-statement path, whatever the statement kinds, and its
\* response has is_multiple = true, columns = [] and total = the number of
\* result entries that path returned.
C1_SeveralStatementsMultiplePath ==
  (q_pc \in {"awaiting", "returned", "raised"}
     /\ Len(_parse_sql_statements(q_sql)) > 1) =>
    /\ q_called \in MultipleMethods
    /\ q_pc = "returned" =>
         /\ q_response.is_multiple = TRUE
         /\ q_response.columns = <<>>
         /\ q_response.total = Len(q_returned)
         /\ q_response.data = q_returned

\* a batch of two SELECT statements has returned two result entries
C1_Witness ==
  /\ q_pc = "returned"
  /\ q_sql = SqlTwoSelects
  /\ _parse_sql_statements(q_sql) = <<"SELECT a FROM t;", "SELECT b FROM u">>
  /\ Len(q_returned) = 2
  /\ q_response.is_multiple = TRUE

\* the number of "(" minus the number of ")" before position p
Depth(s, p) ==
  Cardinality({r \in 1..(p - 1) : Ch(s, r) = "("})
    - Cardinality({r \in 1..(p - 1) : Ch(s, r) = ")"})

\* the line of s that starts at position p
LineAt(s, p) ==
  LET IsNewline(q) == Ch(s, q) = "\n"
  IN  SubSeq(s, p, FirstFrom(s, p, IsNewline) - 1)

\* the lines of s that begin a statement outside every parenthesis
TopLevelStarts(s) ==
  {p \in 1..Len(s) :
     /\ p = 1 \/ Ch(s, p - 1) = "\n"
     /\ Depth(s, p) = 0
     /\ _is_statement_start(strip(LineAt(s, p)))}

\* sql is one SELECT-class statement: the splitter finds one statement, its
\* first keyword is SELECT or WITH, and no later line starts another
\* statement outside the parentheses of the first
OneSelectStatement(sql) ==
  LET statements == cleaned_statements(sqlparse_split(sql))
  IN  /\ Len(statements) = 1
      /\ _get_statement_type(statements[1]) = "SELECT"
      /\ Cardinality(TopLevelStarts(statements[1])) <= 1

\* C2: for SQL that is exactly one SELECT-class statement, however it is
\* spread over lines, execute_query uses the single-statement path and
\* returns is_multiple = false, total = the number of rows and columns = the
\* keys of the first row (empty when there are no rows).
C2_OneSelectSinglePath ==
  (q_pc = "returned" /\ OneSelectStatement(q_sql)) =>
    /\ q_called \notin MultipleMethods
    /\ q_response.is_multiple = FALSE
    /\ q_response.total = Len(q_returned)
    /\ q_response.columns = (IF q_returned = <<>> THEN <<>> ELSE keys(q_returned[1]))

(***************************************************************************)
(* QueryFormService and the query-forms endpoints                          *)
(***************************************************************************)

\* the query_forms table holds MaxForms forms
MaxForms == 2

\* the requests handled at the same time
MaxRequests == 2

\* datetime.utcnow() ranges over 0..MaxClock
MaxClock == 1

FormIds == 1..MaxForms

\* an id that matches no stored form
UnknownFormId == MaxForms + 1

RequestIds == 1..MaxRequests

\* the form the requests are about, and the ids they name
TargetFormId == 1

RequestFormIds == {TargetFormId, UnknownFormId}

\* the totals of the responses of execute_query
ExecuteTotals == {0, 1}

\* request.params of the execute requests
ExecuteParams == ParamsOf(Absent, StrV("A"))

FormTemplates == {TplLikeFirst, TplLines}

\* _build_parameterized_sql(form.sql_template, request.params), by template
BuiltSql == [tpl \in FormTemplates |-> _build_parameterized_sql(tpl, ExecuteParams)]

\* a row of query_forms
FormRow(form_id, is_active) ==
  [id |-> form_id,
   form_name |-> "form" \o ToString(form_id),
   sql_template |-> IF form_id = 1 THEN TplLikeFirst ELSE TplLines,
   is_active |-> is_active,
   created_at |-> 0,
   updated_at |-> 0]

\* a row of query_form_history; executed_sql and error_message are None or
\* a str; call: the request that wrote it (0: an earlier one)
HistoryRow(call, form_id, executed_sql, row_count, success, error_message) ==
  [call |-> call, form_id |-> form_id, executed_sql |-> executed_sql,
   row_count |-> row_count, success |-> success, error_message |-> error_message]

\* SELECT ... FROM query_forms WHERE id = :form_id; None when there is no row
get_form_by_id(form_id) == forms[form_id]

\* what execute_form_query gives its caller
Returned(query_result) == [t |-> "returned", value |-> query_result]

Raised(error) == [t |-> "raised", value |-> [t |-> "error", message |-> error]]

\* the row written after a query that returned
SuccessHistoryRow(call, form_id, sql, query_result) ==
  HistoryRow(call, form_id, StrV(sql), query_result.total, TRUE, NoneV)

\* mutation: the failed attempt is recorded as a success
FailureRowMarkedSuccess(call, form_id, error) ==
  HistoryRow(call, form_id, NoneV, 0, TRUE, StrV(error))

\* the row written after an attempt that raised
FailureHistoryRow(call, form_id, error) ==
  HistoryRow(call, form_id, NoneV, 0, FALSE, StrV(error))

\* the INSERT of _record_execution_history: the row is appended when the
\* store accepts it; a failure is logged and nothing is raised
_record_execution_history(rows, row, accepted) ==
  IF accepted THEN Append(rows, row) ELSE rows

\* mutation: a failed history write replaces the result
ReturnUnlessHistoryFailed(query_result, accepted) ==
  IF accepted THEN Returned(query_result) ELSE Raised("history write failed")

\* the success branch after its history write: the result is returned
ReturnAfterHistory(query_result, accepted) == Returned(query_result)

\* the except branch after its history write: the error is raised again
RaiseAfterHistory(error, accepted) == Raised(error)

\* execute_query_form: 200 with the result, 500 for any exception
ExecuteStatus(outcome) == IF outcome.t = "returned" THEN 200 ELSE 500

\* UPDATE query_forms SET is_active = 0, updated_at = :updated_at
SoftDeletedRow(row, now) == [row EXCEPT !.is_active = FALSE, !.updated_at = now]

\* mutation: the hard delete leaves the history rows
HistoryKept(rows, form_id) == rows

\* DELETE FROM query_form_history WHERE form_id = :form_id
HistoryWithoutForm(rows, form_id) ==
  SelectSeq(rows, LAMBDA row : row.form_id # form_id)

\* UPDATE query_forms SET is_active = :is_active, updated_at = :updated_at
UpdatedRow(row, is_active, now) ==
  [row EXCEPT !.is_active = is_active, !.updated_at = now]

NewRequest(op, form_id, soft_delete) ==
  [op |-> op, form_id |-> form_id, soft_delete |-> soft_delete, pc |-> "start",
   form |-> NoneV, sql |-> "", query_result |-> NoneV, error |-> "",
   history_ok |-> FALSE, outcome |-> "", value |-> NoneV, http |-> 0]

NewRequests ==
  {NewRequest("execute", f, FALSE) : f \in RequestFormIds}
    \cup {NewRequest("delete", f, soft) : f \in RequestFormIds, soft \in BOOLEAN}
    \cup {NewRequest("toggle", f, FALSE) : f \in RequestFormIds}

FormsInit ==
  /\ forms \in {[id \in 1..UnknownFormId |->
                   IF id = TargetFormId THEN FormRow(id, active)
                   ELSE IF id \in FormIds THEN FormRow(id, TRUE)
                   ELSE NoneV] :
                active \in BOOLEAN}
  /\ history = [i \in FormIds |-> HistoryRow(0, i, StrV("SELECT 1"), 1, TRUE, NoneV)]
  /\ clock = 0
  /\ requests \in [RequestIds -> NewRequests]
  /\ initial_forms = forms
  /\ BuildIdle
  /\ QueryIdle
  /\ ExtraIdle

\* time passes
Tick ==
  /\ clock < MaxClock
  /\ clock' = clock + 1
  /\ UNCHANGED <<forms, history, requests, initial_forms>>
  /\ UNCHANGED <<buildVars, queryVars, extraVars>>

\* execute_form_query up to the query: the form is loaded and checked and
\* the SQL is built
ExecLoadForm(r) ==
  /\ requests[r].op = "execute"
  /\ requests[r].pc = "start"
  /\ LET req == requests[r]
         form == get_form_by_id(req.form_id)
     IN  requests' = [requests EXCEPT ![r] =
           IF form = NoneV
           THEN [req EXCEPT !.pc = "failed", !.error = "form not found"]
           ELSE IF ~form.is_active
           THEN [req EXCEPT !.form = form, !.pc = "failed",
                            !.error = "form disabled"]
           ELSE [req EXCEPT !.form = form, !.pc = "querying",
                            !.sql = BuiltSql[form.sql_template]]]
  /\ UNCHANGED <<forms, history, clock, initial_forms>>
  /\ UNCHANGED <<buildVars, queryVars, extraVars>>

\* query_service.execute_query returns a response
ExecQueryReturns(r) ==
  /\ requests[r].op = "execute"
  /\ requests[r].pc = "querying"
  /\ \E total \in ExecuteTotals :
       requests' = [requests EXCEPT
                      ![r].query_result = [t |-> "response", total |-> total],
                      ![r].pc = "recording"]
  /\ UNCHANGED <<forms, history, clock, initial_forms>>
  /\ UNCHANGED <<buildVars, queryVars, extraVars>>

\* query_service.execute_query raises
ExecQueryRaises(r) ==
  /\ requests[r].op = "execute"
  /\ requests[r].pc = "querying"
  /\ requests' = [requests EXCEPT ![r].error = "query failed", ![r].pc = "failed"]
  /\ UNCHANGED <<forms, history, clock, initial_forms>>
  /\ UNCHANGED <<buildVars, queryVars, extraVars>>

\* the success branch to its end: the history row is written (or the store
\* fails), the result is returned and the endpoint answers
ExecRecordSuccess(r) ==
  /\ requests[r].op = "execute"
  /\ requests[r].pc = "recording"
  /\ \E accepted \in BOOLEAN :
       LET req == requests[r]
           outcome == ReturnAfterHistory(req.query_result, accepted)
       IN  /\ history' = _record_execution_history(
                           history,
                           SuccessHistoryRow(r, req.form_id, req.sql, req.query_result),
                           accepted)
           /\ requests' = [requests EXCEPT ![r] =
                [req EXCEPT !.history_ok = accepted, !.outcome = outcome.t,
                            !.value = outcome.value,
                            !.http = ExecuteStatus(outcome), !.pc = "done"]]
  /\ UNCHANGED <<forms, clock, initial_forms>>
  /\ UNCHANGED <<buildVars, queryVars, extraVars>>

\* the except branch to its end: the failure row is written (or the store
\* fails), the error is raised again and the endpoint answers
ExecRecordFailure(r) ==
  /\ requests[r].op = "execute"
  /\ requests[r].pc = "failed"
  /\ \E accepted \in BOOLEAN :
       LET req == requests[r]
           outcome == RaiseAfterHistory(req.error, accepted)
       IN  /\ history' = _record_execution_history(
                           history, FailureHistoryRow(r, req.form_id, req.error),
                           accepted)
           /\ requests' = [requests EXCEPT ![r] =
                [req EXCEPT !.history_ok = accepted, !.outcome = outcome.t,
                            !.value = outcome.value,
                            !.http = ExecuteStatus(outcome), !.pc = "done"]]
  /\ UNCHANGED <<forms, clock, initial_forms>>
  /\ UNCHANGED <<buildVars, queryVars, extraVars>>

\* DELETE /query-forms/{form_id}: delete_form in one transaction, then 200,
\* or 404 when no form row was affected
DeleteForm(r) ==
  /\ requests[r].op = "delete"
  /\ requests[r].pc = "start"
  /\ LET req == requests[r]
         found == forms[req.form_id] # NoneV
     IN  /\ forms' = IF ~found THEN forms
                     ELSE IF req.soft_delete
                     THEN [forms EXCEPT ![req.form_id] = SoftDeletedRow(@, clock)]
                     ELSE [forms EXCEPT ![req.form_id] = NoneV]
         /\ history' = IF req.soft_delete THEN history
                       ELSE HistoryWithoutForm(history, req.form_id)
         /\ requests' = [requests EXCEPT ![r] =
              [req EXCEPT !.outcome = IF found THEN "returned" ELSE "raised",
                          !.http = IF found THEN 200 ELSE 404, !.pc = "done"]]
  /\ UNCHANGED <<clock, initial_forms>>
  /\ UNCHANGED <<buildVars, queryVars, extraVars>>

\* toggle-status up to update_form: the form is read; 404 when it is missing
ToggleLoad(r) ==
  /\ requests[r].op = "toggle"
  /\ requests[r].pc = "start"
  /\ LET req == requests[r]
         form == get_form_by_id(req.form_id)
     IN  requests' = [requests EXCEPT ![r] =
           IF form = NoneV
           THEN [req EXCEPT !.outcome = "raised", !.http = 404, !.pc = "done"]
           ELSE [req EXCEPT !.form = form, !.pc = "updating"]]
  /\ UNCHANGED <<forms, history, clock, initial_forms>>
  /\ UNCHANGED <<buildVars, queryVars, extraVars>>

\* update_form(form_id, is_active = not form.is_active) and the response.
\* The row read back inside the transaction comes from another connection,
\* which sees the row as last committed; no row updated: update_form
\* returns None and the endpoint answers 500
ToggleUpdate(r) ==
  /\ requests[r].op = "toggle"
  /\ requests[r].pc = "updating"
  /\ LET req == requests[r]
         updated_form == get_form_by_id(req.form_id)
     IN  IF updated_form = NoneV
         THEN /\ forms' = forms
              /\ requests' = [requests EXCEPT ![r] =
                   [req EXCEPT !.outcome = "raised", !.http = 500, !.pc = "done"]]
         ELSE /\ forms' = [forms EXCEPT ![req.form_id] =
                             UpdatedRow(@, ~req.form.is_active, clock)]
              /\ requests' = [requests EXCEPT ![r] =
                   [req EXCEPT !.outcome = "returned",
                               !.value = [t |-> "toggle",
                                          is_active |-> updated_form.is_active],
                               !.http = 200, !.pc = "done"]]
  /\ UNCHANGED <<history, clock, initial_forms>>
  /\ UNCHANGED <<buildVars, queryVars, extraVars>>

FormsNext ==
  \/ Tick
  \/ \E r \in RequestIds :
       \/ ExecLoadForm(r)
       \/ ExecQueryReturns(r)
       \/ ExecQueryRaises(r)
       \/ ExecRecordSuccess(r)
       \/ ExecRecordFailure(r)
       \/ DeleteForm(r)
       \/ ToggleLoad(r)
       \/ ToggleUpdate(r)

FormsSpec == FormsInit /\ [][FormsNext]_vars

(***************************************************************************)
(* Properties of form execution, deletion and toggling                     *)
(***************************************************************************)

\* request r is an execute_form_query call that has ended
ExecuteDone(r) == requests[r].op = "execute" /\ requests[r].pc = "done"

\* the step is one of execute call r
ExecuteStep(r) == requests[r].op = "execute" /\ requests'[r] # requests[r]

\* the step appends exactly one history row, written by call r for its form,
\* whose success flag is flag
AppendsOneRow(r, flag) ==
  /\ Len(history') = Len(history) + 1
  /\ SubSeq(history', 1, Len(history)) = history
  /\ history'[Len(history')].call = r
  /\ history'[Len(history')].form_id = requests[r].form_id
  /\ history'[Len(history')].success = flag

\* C6: every execute_form_query call writes exactly one history row, in the
\* step that ends the call, when the store accepts the write, and none
\* otherwise; the row's success flag is true exactly when the call returned
\* a result. No other step of the call touches the history.
C6_OneHistoryRowPerAttempt ==
  [][\A r \in RequestIds :
       ExecuteStep(r) =>
         IF requests'[r].pc = "done" /\ requests'[r].history_ok
         THEN AppendsOneRow(r, requests'[r].outcome = "returned")
         ELSE history' = history]_vars

\* one call has returned a result and its row says success; another has
\* raised and its row says failure
C6_Witness ==
  /\ ExecuteDone(1) /\ requests[1].outcome = "returned" /\ requests[1].history_ok
  /\ ExecuteDone(2) /\ requests[2].outcome = "raised" /\ requests[2].history_ok
  /\ \E i \in 1..Len(history) : history[i].call = 1 /\ history[i].success
  /\ \E i \in 1..Len(history) : history[i].call = 2 /\ ~history[i].success

\* C7: when the history write fails, execute_form_query still returns the
\* query result it got, or still raises the error the attempt ended with.
C7_HistoryFailureChangesNothing ==
  \A r \in RequestIds :
    (ExecuteDone(r) /\ ~requests[r].history_ok) =>
      IF requests[r].query_result # NoneV
      THEN Returned(requests[r].query_result) =
             [t |-> requests[r].outcome, value |-> requests[r].value]
      ELSE Raised(requests[r].error) =
             [t |-> requests[r].outcome, value |-> requests[r].value]

\* the history write of a call that returned rows has failed, and so has
\* the history write of a call whose query raised
C7_Witness ==
  /\ ExecuteDone(1) /\ ~requests[1].history_ok
  /\ requests[1].outcome = "returned" /\ requests[1].value.total = 1
  /\ ExecuteDone(2) /\ ~requests[2].history_ok
  /\ requests[2].outcome = "raised" /\ requests[2].error = "query failed"
  /\ \A i \in 1..Len(history) : history[i].call = 0

\* C8: an execute request whose form_id matches no stored form is answered
\* with HTTP 404.
C8_UnknownFormIs404 ==
  \A r \in RequestIds :
    (ExecuteDone(r) /\ requests[r].form_id = UnknownFormId) =>
      requests[r].http = 404

\* the step is the delete of request r, and the form exists
DeleteStep(r) ==
  /\ requests[r].op = "delete"
  /\ requests[r].pc = "start"
  /\ requests'[r].pc = "done"
  /\ forms[requests[r].form_id] # NoneV

\* the hard delete of form f: its row and its history rows go, nothing else
HardDeleteEffect(f) ==
  /\ forms' = [forms EXCEPT ![f] = NoneV]
  /\ history' = SelectSeq(history, LAMBDA row : row.form_id # f)

\* C9 as stated: a soft delete changes only the form's is_active (to
\* false) and keeps every history row; a hard delete removes exactly the
\* form's row and the form's history rows.
C9_SoftDeleteOnlyIsActive ==
  [][\A r \in RequestIds :
       DeleteStep(r) =>
         IF requests[r].soft_delete
         THEN /\ forms' = [forms EXCEPT ![requests[r].form_id].is_active = FALSE]
              /\ history' = history
         ELSE HardDeleteEffect(requests[r].form_id)]_vars

\* C9 amended: a soft delete changes the form's is_active (to false) and
\* its updated_at (to the current time), nothing else, and keeps every
\* history row; a hard delete removes exactly the form's row and the form's
\* history rows.
C9_SoftDeleteAlsoStamps ==
  [][\A r \in RequestIds :
       DeleteStep(r) =>
         IF requests[r].soft_delete
         THEN /\ forms' = [forms EXCEPT ![requests[r].form_id].is_active = FALSE,
                                        ![requests[r].form_id].updated_at = clock]
              /\ history' = history
         ELSE HardDeleteEffect(requests[r].form_id)]_vars

\* an active form has been soft deleted at time 1: it is inactive, stamped,
\* otherwise as it was, and the history is as it was
C9_Witness ==
  /\ requests[1] = [NewRequest("delete", TargetFormId, TRUE) EXCEPT
                      !.outcome = "returned", !.http = 200, !.pc = "done"]
  /\ requests[2].pc = "start"
  /\ initial_forms[TargetFormId].is_active
  /\ forms = [initial_forms EXCEPT ![TargetFormId].is_active = FALSE,
                                   ![TargetFormId].updated_at = 1]
  /\ Len(history) = MaxForms

\* the successful toggle-status calls on form f
SuccessfulToggles(f) ==
  {r \in RequestIds :
     /\ requests[r].op = "toggle"
     /\ requests[r].form_id = f
     /\ requests[r].pc = "done"
     /\ requests[r].http = 200}

\* no delete request has acted on form f
NoDeleteOf(f) ==
  \A r \in RequestIds :
    ~(requests[r].op = "delete" /\ requests[r].form_id = f /\ requests[r].pc = "done")

\* b negated k times
NegatedTimes(b, k) == IF k % 2 = 0 THEN b ELSE ~b

\* C10: after k successful toggle-status calls on a form (and no delete),
\* the stored is_active is the initial value negated k times, also when
\* the calls overlap.
C10_TogglesNegate ==
  \A f \in FormIds :
    NoDeleteOf(f) =>
      forms[f].is_active =
        NegatedTimes(initial_forms[f].is_active, Cardinality(SuccessfulToggles(f)))

\* ---------------------------------------------------------------------
\* Query forms: create, update and duplicate
\* (models/schemas.py QueryFormCreate, QueryFormUpdate;
\*  query_form_service.py create_form, update_form;
\*  endpoints/query_forms.py create_query_form, update_query_form,
\*  duplicate_query_form)
\* ---------------------------------------------------------------------

\* rows the query_forms table may hold in the runs of EditSpec
MaxStoredForms == 2

StoredFormIds == 1..MaxStoredForms

\* form names a client may send
FormNames == {"", " ", "a", " b "}

\* SQL templates a client may send
EditTemplates == {"", "SELECT 1", " SELECT @x "}

\* QueryFormCreate.validate_form_name after Field(min_length=1): the
\* stripped name, None when validation raises
validate_form_name(v) ==
  IF Len(v) < 1 \/ strip(v) = "" THEN NoneV ELSE StrV(strip(v))

\* QueryFormCreate.validate_sql_template: the stripped template, None when
\* validation raises
validate_sql_template(v) ==
  IF strip(v) = "" \/ ~Contains(v, "@") THEN NoneV ELSE StrV(strip(v))

\* QueryFormCreate(form_name=..., sql_template=...): the validated model,
\* None when a validator raises
QueryFormCreate(form_name, sql_template) ==
  IF validate_form_name(form_name) = NoneV \/ validate_sql_template(sql_template) = NoneV
  THEN NoneV
  ELSE [form_name |-> validate_form_name(form_name).s,
        sql_template |-> validate_sql_template(sql_template).s]

\* QueryFormUpdate: every field Optional, no validator; a field is None or
\* the value sent
QueryFormUpdate(form_name, sql_template) ==
  [form_name |-> form_name, sql_template |-> sql_template]

\* the fields an update request may carry
UpdateFields(values) == {NoneV} \cup {StrV(v) : v \in values}

\* the ids of the stored rows
StoredIds == {i \in DOMAIN forms : forms[i] # NoneV}

\* UNIQUE(form_name): no row other than `except` holds the name
NameFree(form_name, except) ==
  \A i \in StoredIds \ {except} : forms[i].form_name # form_name

\* result.lastrowid of the INSERT (AUTOINCREMENT, no row was deleted)
lastrowid == Cardinality(StoredIds) + 1

\* create_form: the table after the INSERT; unchanged when the INSERT
\* raises on the UNIQUE name
create_form(form_data) ==
  IF ~NameFree(form_data.form_name, 0) THEN forms
  ELSE [forms EXCEPT ![lastrowid] =
          [id |-> lastrowid,
           form_name |-> form_data.form_name,
           sql_template |-> form_data.sql_template,
           is_active |-> TRUE,
           created_at |-> clock,
           updated_at |-> clock]]

\* update_form: the table after the UPDATE, which sets every field of
\* form_data that is not None
update_form(form_id, form_data) ==
  IF form_data.form_name = NoneV /\ form_data.sql_template = NoneV THEN forms
  ELSE IF forms[form_id] = NoneV THEN forms
  ELSE IF form_data.form_name # NoneV /\ ~NameFree(form_data.form_name.s, form_id) THEN forms
  ELSE [forms EXCEPT ![form_id] =
          [@ EXCEPT !.form_name = IF form_data.form_name = NoneV THEN @
                                  ELSE form_data.form_name.s,
                    !.sql_template = IF form_data.sql_template = NoneV THEN @
                                     ELSE form_data.sql_template.s,
                    !.updated_at = clock]]

EditInit ==
  /\ forms = [i \in StoredFormIds |-> NoneV]
  /\ history = <<>>
  /\ clock = 0
  /\ requests = <<>>
  /\ initial_forms = forms
  /\ BuildIdle
  /\ QueryIdle
  /\ ExtraIdle

\* POST /query-forms/
create_query_form ==
  \E form_name \in FormNames, sql_template \in EditTemplates :
    /\ Cardinality(StoredIds) < MaxStoredForms
    /\ forms' = IF QueryFormCreate(form_name, sql_template) = NoneV THEN forms
                ELSE create_form(QueryFormCreate(form_name, sql_template))
    /\ UNCHANGED <<history, clock, requests, initial_forms>>
    /\ UNCHANGED <<buildVars, queryVars, extraVars>>

\* PUT /query-forms/{form_id}
update_query_form ==
  \E form_id \in StoredFormIds,
     form_name \in UpdateFields(FormNames),
     sql_template \in UpdateFields(EditTemplates) :
    /\ forms' = update_form(form_id, QueryFormUpdate(form_name, sql_template))
    /\ UNCHANGED <<history, clock, requests, initial_forms>>
    /\ UNCHANGED <<buildVars, queryVars, extraVars>>

\* POST /query-forms/{form_id}/duplicate
duplicate_query_form ==
  \E form_id \in StoredFormIds, new_name \in FormNames :
    /\ Cardinality(StoredIds) < MaxStoredForms
    /\ forms' = IF get_form_by_id(form_id) = NoneV THEN forms
                ELSE IF QueryFormCreate(new_name, get_form_by_id(form_id).sql_template) = NoneV
                THEN forms
                ELSE create_form(QueryFormCreate(new_name, get_form_by_id(form_id).sql_template))
    /\ UNCHANGED <<history, clock, requests, initial_forms>>
    /\ UNCHANGED <<buildVars, queryVars, extraVars>>

EditNext ==
  \/ create_query_form
  \/ update_query_form
  \/ duplicate_query_form

EditSpec == EditInit /\ [][EditNext]_vars

\* C11: every stored query form has a non-empty form_name and a non-empty
\* sql_template that contains an @ placeholder
C11_StoredFormsValid ==
  \A i \in StoredIds :
    /\ forms[i].form_name # ""
    /\ forms[i].sql_template # ""
    /\ Contains(forms[i].sql_template, "@")

\* ---------------------------------------------------------------------
\* Configuration service: database servers and system settings
\* (services/config_service.py ConfigService; endpoints/settings.py)
\* ---------------------------------------------------------------------

\* rows the database_servers table may hold in the runs of ConfigSpec
MaxServers == 2

ServerIds == 1..MaxServers

\* server names a client may send
ServerHosts == {"A", "B"}

\* the key of the current server selection
CurrentServerKey == "current_server_selection"

SettingKeys == {CurrentServerKey, "theme"}

\* MsDatabaseServerConfigUpdate: every field Optional, None when not sent
MsDatabaseServerConfigUpdate(name, port, is_enabled, description) ==
  [name |-> name, port |-> port, is_enabled |-> is_enabled, description |-> description]

\* the bodies a client may send to PUT /settings/database-servers/{id}
ServerUpdates ==
  {MsDatabaseServerConfigUpdate(name, port, is_enabled, description) :
     name \in {NoneV, StrV("B")},
     port \in {NoneV, IntV(1434)},
     is_enabled \in {NoneV, BoolV(TRUE), BoolV(FALSE)},
     description \in {NoneV, StrV("d")}}

\* the ids of the stored servers
StoredServerIds == {i \in DOMAIN servers : servers[i] # NoneV}

\* UNIQUE(name) of database_servers: no row other than `except` has the name
ServerNameFree(name, except) ==
  \A i \in StoredServerIds \ {except} : servers[i].name # name

\* _create_database_server_async: the table after the INSERT; unchanged
\* when the INSERT raises on the UNIQUE name
_create_database_server_async(name) ==
  IF ~ServerNameFree(name, 0) THEN servers
  ELSE [servers EXCEPT ![Cardinality(StoredServerIds) + 1] =
          [id |-> Cardinality(StoredServerIds) + 1,
           name |-> name,
           port |-> 1433,
           is_enabled |-> TRUE,
           description |-> NoneV,
           updated_at |-> clock]]

\* an UPDATE that also puts the port back to its default when no port is sent
UpdatedServerRowResetsPort(row, server_data) ==
  [row EXCEPT
     !.name = IF server_data.name = NoneV THEN @ ELSE server_data.name.s,
     !.port = IF server_data.port = NoneV THEN 1433 ELSE server_data.port.n,
     !.is_enabled = IF server_data.is_enabled = NoneV THEN @ ELSE server_data.is_enabled.b,
     !.description = IF server_data.description = NoneV THEN @ ELSE server_data.description,
     !.updated_at = clock]

\* the row of the UPDATE: each column whose field is not None is set
UpdatedServerRow(row, server_data) ==
  [row EXCEPT
     !.name = IF server_data.name = NoneV THEN @ ELSE server_data.name.s,
     !.port = IF server_data.port = NoneV THEN @ ELSE server_data.port.n,
     !.is_enabled = IF server_data.is_enabled = NoneV THEN @ ELSE server_data.is_enabled.b,
     !.description = IF server_data.description = NoneV THEN @ ELSE server_data.description,
     !.updated_at = clock]

\* server_data has no field to update
NoUpdateFields(server_data) ==
  /\ server_data.name = NoneV
  /\ server_data.port = NoneV
  /\ server_data.is_enabled = NoneV
  /\ server_data.description = NoneV

\* _update_database_server_async: the table after the call
_update_database_server_async(server_id, server_data) ==
  IF NoUpdateFields(server_data) \/ servers[server_id] = NoneV THEN servers
  ELSE IF server_data.name # NoneV /\ ~ServerNameFree(server_data.name.s, server_id)
  THEN servers
  ELSE [servers EXCEPT ![server_id] = UpdatedServerRow(@, server_data)]

\* the status update_database_server answers with: 404 when the service
\* returns None (no row, or the UPDATE raised)
UpdateServerStatus(server_id, server_data) ==
  IF servers[server_id] = NoneV THEN 404
  ELSE IF NoUpdateFields(server_data) THEN 200
  ELSE IF server_data.name # NoneV /\ ~ServerNameFree(server_data.name.s, server_id)
  THEN 404
  ELSE 200

\* asyncio.get_running_loop() in the synchronous service methods: they do
\* their work with asyncio.run only when no event loop is running, and
\* return their fallback value otherwise.  Every endpoint is an async def
\* and so calls them with the server's loop running.
InEndpoint == TRUE

\* _get_database_servers_async: the rows ORDER BY "order", id (every row is
\* inserted with order 1)
RECURSIVE ServersFrom(_)
ServersFrom(i) ==
  IF i > MaxServers THEN <<>>
  ELSE IF servers[i] = NoneV THEN ServersFrom(i + 1)
  ELSE <<servers[i]>> \o ServersFrom(i + 1)

_get_database_servers_async == ServersFrom(1)

get_database_servers(running_loop) ==
  IF running_loop THEN <<>> ELSE _get_database_servers_async

\* SELECT value FROM system_settings WHERE key = :key
_get_system_setting_async(key, default_value) ==
  IF settings[key] # NoneV THEN settings[key].value ELSE default_value

get_system_setting(key, default_value, running_loop) ==
  IF running_loop THEN default_value ELSE _get_system_setting_async(key, default_value)

\* the value get_current_server_selection returns, given the stored
\* selection and the server list it read
FirstServer(current_server, found) ==
  IF Truthy(current_server) THEN current_server
  ELSE IF found # <<>> THEN StrV(found[1].name)
  ELSE NoneV

get_current_server_selection(running_loop) ==
  FirstServer(get_system_setting(CurrentServerKey, NoneV, running_loop),
              get_database_servers(running_loop))

\* UPDATE or INSERT of the row of the key
_set_system_setting_async(key, value, description) ==
  [settings EXCEPT ![key] = [value |-> StrV(value), description |-> description]]

\* set_system_setting: the table after the call; nothing is written when an
\* event loop is running, and the method then returns False
set_system_setting(key, value, description, running_loop) ==
  IF running_loop THEN settings ELSE _set_system_setting_async(key, value, description)

\* the bool set_system_setting returns
set_system_setting_returns(running_loop) == ~running_loop

\* DELETE FROM system_settings WHERE key = :key
_delete_system_setting_async(key) == [settings EXCEPT ![key] = NoneV]

ConfigInit ==
  /\ servers = [i \in ServerIds |-> NoneV]
  /\ settings = [k \in SettingKeys |-> NoneV]
  /\ cfg_call = [op |-> "none"]
  /\ NonConfigIdle

\* POST /settings/database-servers
create_database_server ==
  \E name \in ServerHosts :
    /\ Cardinality(StoredServerIds) < MaxServers
    /\ servers' = _create_database_server_async(name)
    /\ cfg_call' = [op |-> "create_database_server", name |-> name,
                    status |-> IF ServerNameFree(name, 0) THEN 200 ELSE 400]
    /\ UNCHANGED settings
    /\ UNCHANGED nonConfigVars

\* PUT /settings/database-servers/{server_id}
update_database_server ==
  \E server_id \in ServerIds, server_data \in ServerUpdates :
    /\ servers' = _update_database_server_async(server_id, server_data)
    /\ cfg_call' = [op |-> "update_database_server", server_id |-> server_id,
                    server_data |-> server_data,
                    status |-> UpdateServerStatus(server_id, server_data)]
    /\ UNCHANGED settings
    /\ UNCHANGED nonConfigVars

\* GET /settings/current-server
get_current_server_selection_endpoint ==
  /\ cfg_call' = [op |-> "get_current_server_selection", running_loop |-> InEndpoint,
                  value |-> get_current_server_selection(InEndpoint)]
  /\ UNCHANGED <<servers, settings>>
  /\ UNCHANGED nonConfigVars

\* config_service.get_current_server_selection() called from synchronous
\* code, with no event loop running
CallGetCurrentServerSelection ==
  /\ cfg_call' = [op |-> "get_current_server_selection", running_loop |-> FALSE,
                  value |-> get_current_server_selection(FALSE)]
  /\ UNCHANGED <<servers, settings>>
  /\ UNCHANGED nonConfigVars

\* POST /settings/current-server: 400 when the service returns False
set_current_server_selection_endpoint ==
  \E server_name \in ServerHosts :
    /\ settings' = set_system_setting(CurrentServerKey, server_name, "current server", InEndpoint)
    /\ cfg_call' = [op |-> "set_current_server_selection", server_name |-> server_name,
                    status |-> IF set_system_setting_returns(InEndpoint) THEN 200 ELSE 400]
    /\ UNCHANGED servers
    /\ UNCHANGED nonConfigVars

\* config_service.set_current_server_selection(server_name) called from
\* synchronous code, with no event loop running: the name is stored as given
CallSetCurrentServerSelection ==
  \E server_name \in ServerHosts :
    /\ settings' = set_system_setting(CurrentServerKey, server_name, "current server", FALSE)
    /\ cfg_call' = [op |-> "set_current_server_selection", server_name |-> server_name,
                    status |-> IF set_system_setting_returns(FALSE) THEN 200 ELSE 400]
    /\ UNCHANGED servers
    /\ UNCHANGED nonConfigVars

\* GET /settings/system/{key}: 404 when the service returns None
get_system_setting_endpoint ==
  \E key \in SettingKeys :
    /\ cfg_call' = [op |-> "get_system_setting", key |-> key,
                    stored |-> settings[key] # NoneV,
                    status |-> IF get_system_setting(key, NoneV, InEndpoint) = NoneV
                               THEN 404 ELSE 200]
    /\ UNCHANGED <<servers, settings>>
    /\ UNCHANGED nonConfigVars

\* POST /settings/system
set_system_setting_endpoint ==
  \E key \in SettingKeys, value \in ServerHosts :
    /\ settings' = _set_system_setting_async(key, value, "")
    /\ cfg_call' = [op |-> "set_system_setting", key |-> key, value |-> value,
                    status |-> 200]
    /\ UNCHANGED servers
    /\ UNCHANGED nonConfigVars

\* DELETE /settings/system/{key}: _delete_system_setting_async returns True
\* whether or not a row was deleted, so the endpoint answers 200
delete_system_setting_endpoint ==
  \E key \in SettingKeys :
    /\ settings' = _delete_system_setting_async(key)
    /\ cfg_call' = [op |-> "delete_system_setting", key |-> key,
                    stored |-> settings[key] # NoneV,
                    status |-> 200]
    /\ UNCHANGED servers
    /\ UNCHANGED nonConfigVars

ConfigNext ==
  \/ create_database_server
  \/ update_database_server
  \/ get_current_server_selection_endpoint
  \/ CallGetCurrentServerSelection
  \/ set_current_server_selection_endpoint
  \/ CallSetCurrentServerSelection
  \/ get_system_setting_endpoint
  \/ set_system_setting_endpoint
  \/ delete_system_setting_endpoint

ConfigSpec == ConfigInit /\ [][ConfigNext]_vars

\* the update that was just answered sent exactly the fields in `sent`
UpdateSent(sent) ==
  /\ cfg_call'.op = "update_database_server"
  /\ cfg_call'.status = 200
  /\ \A f \in {"name", "port", "is_enabled", "description"} :
       (cfg_call'.server_data[f] # NoneV) <=> (f \in sent)

\* C12: an update that sends only description leaves name, port and
\* is_enabled of every server as they were, and one that sends only
\* is_enabled leaves every description as it was
C12_UpdateFrame ==
  [][/\ UpdateSent({"description"}) =>
          \A i \in ServerIds : servers[i] # NoneV =>
            /\ servers'[i].name = servers[i].name
            /\ servers'[i].port = servers[i].port
            /\ servers'[i].is_enabled = servers[i].is_enabled
     /\ UpdateSent({"is_enabled"}) =>
          \A i \in ServerIds : servers[i] # NoneV =>
            servers'[i].description = servers[i].description]_vars

\* a description-only update has changed the description of a server whose
\* port is not the default one
C12_Witness ==
  /\ cfg_call.op = "update_database_server"
  /\ cfg_call.status = 200
  /\ cfg_call.server_data = MsDatabaseServerConfigUpdate(NoneV, NoneV, NoneV, StrV("d"))
  /\ servers[cfg_call.server_id].description = StrV("d")
  /\ servers[cfg_call.server_id].port = 1434
  /\ ~servers[cfg_call.server_id].is_enabled

\* the ids of the stored servers that are enabled
EnabledServerIds == {i \in StoredServerIds : servers[i].is_enabled}

\* C13: with no stored selection, get_current_server_selection returns the
\* name of an enabled server when one is stored, and no value when no
\* server is stored
C13_DefaultSelectionEnabled ==
  (cfg_call.op = "get_current_server_selection" /\ settings[CurrentServerKey] = NoneV) =>
    /\ EnabledServerIds # {} =>
         \E i \in EnabledServerIds : cfg_call.value = StrV(servers[i].name)
    /\ StoredServerIds = {} => cfg_call.value = NoneV

\* C14: after POST /settings/current-server with S the stored selection is
\* S, and a GET /settings/current-server that follows returns S
C14_SelectionRoundTrip ==
  [][/\ cfg_call'.op = "set_current_server_selection" =>
          /\ settings'[CurrentServerKey] # NoneV
          /\ settings'[CurrentServerKey].value = StrV(cfg_call'.server_name)
     /\ (cfg_call.op = "set_current_server_selection" /\
         cfg_call'.op = "get_current_server_selection" /\ cfg_call'.running_loop) =>
          cfg_call'.value = StrV(cfg_call.server_name)]_vars

\* C15: GET and DELETE on /settings/system/{key} answer 404 exactly when no
\* setting is stored under the key
C15_NotFoundIffAbsent ==
  cfg_call.op \in {"get_system_setting", "delete_system_setting"} =>
    (cfg_call.status = 404 <=> ~cfg_call.stored)

\* ---------------------------------------------------------------------
\* Saved queries (api/routes/query_history.py save_query;
\* services/query_history_service.py QueryHistoryService.save_query;
\* core/database_init.py saved_queries)
\* ---------------------------------------------------------------------

\* rows the saved_queries table may hold in the runs of SavedSpec
MaxSaved == 3

\* names and SQL texts a client may send
SavedNames == {"q1", "q2"}

SavedSqls == {"SELECT 1", "SELECT 2"}

\* the text of the exception the INSERT raises on the row, None when the
\* table accepts it: saved_queries has a PRIMARY KEY on id and NOT NULL on
\* name, query_type and sql, and no UNIQUE constraint on name
InsertError(rows, name, sql) == NoneV

\* QueryHistoryService.save_query: the table after session.commit()
save_query(rows, name, sql, is_public) ==
  IF InsertError(rows, name, sql) # NoneV THEN rows
  ELSE Append(rows, [id |-> Len(rows) + 1, name |-> name, sql |-> sql,
                     is_public |-> is_public, is_favorite |-> FALSE])

\* the status of POST /saved: 400 for an exception whose text holds
\* "UNIQUE constraint failed", 500 for any other, 200 otherwise
SaveStatus(error) ==
  IF error = NoneV THEN 200
  ELSE IF Contains(error.s, "UNIQUE constraint failed") THEN 400
  ELSE 500

SavedInit ==
  /\ saved_queries = <<>>
  /\ saved_call = [op |-> "none"]
  /\ NonSavedIdle

\* POST /saved
save_query_endpoint ==
  \E name \in SavedNames, sql \in SavedSqls, is_public \in BOOLEAN :
    /\ Len(saved_queries) < MaxSaved
    /\ saved_queries' = save_query(saved_queries, name, sql, is_public)
    /\ saved_call' = [op |-> "save_query", name |-> name,
                      existed |-> \E i \in 1..Len(saved_queries) :
                                     saved_queries[i].name = name,
                      status |-> SaveStatus(InsertError(saved_queries, name, sql))]
    /\ UNCHANGED nonSavedVars

\* POST /saved while the database cannot be written (locked or missing
\* file): the commit raises an OperationalError
save_query_fails ==
  \E name \in SavedNames :
    /\ saved_call' = [op |-> "save_query", name |-> name,
                      existed |-> \E i \in 1..Len(saved_queries) :
                                     saved_queries[i].name = name,
                      status |-> SaveStatus(StrV("database is locked"))]
    /\ UNCHANGED saved_queries
    /\ UNCHANGED nonSavedVars

SavedNext ==
  \/ save_query_endpoint
  \/ save_query_fails

SavedSpec == SavedInit /\ [][SavedNext]_vars

\* C16: saving a query under the name of a stored one fails with a status
\* of its own (not the 500 of other failures, not 200), and no two stored
\* rows have the same name
C16_DuplicateNameRejected ==
  /\ (saved_call.op = "save_query" /\ saved_call.existed) =>
       saved_call.status \notin {200, 500}
  /\ \A i, j \in 1..Len(saved_queries) :
       saved_queries[i].name = saved_queries[j].name => i = j

\* ---------------------------------------------------------------------
\* Schema analysis (utils/schema_analyzer.py SQLSchemaAnalyzer
\* get_create_statements, _process_table_or_view;
\* services/schema_analyzer.py SchemaAnalyzer analyze_sql_schema,
\* _get_table_info, _analyze_view_dependencies)
\* ---------------------------------------------------------------------

\* the catalog of the server: two views and a table; "X" is a name that no
\* object of the catalog has
ViewNames == {"V1", "V2"}

TableNames == {"T"}

ObjectNames == ViewNames \cup TableNames \cup {"X"}

\* the names the views of `names` refer to
RefsOf(names) == UNION {sa_views[v] : v \in names \cap ViewNames}

\* the names the analysis has to look at: the ones the SQL refers to and,
\* for every view among them, the ones its definition refers to
RECURSIVE ReachableFrom(_, _)
ReachableFrom(names, fuel) ==
  IF fuel = 0 THEN names ELSE ReachableFrom(names \cup RefsOf(names), fuel - 1)

Reachable == ReachableFrom(sa_input, Cardinality(ObjectNames))

\* one loop over a collection of names: the names still to come, and
\* whether the loop is one over the names of a view definition
Loop(names, nested) == [names |-> names, nested |-> nested]

\* processed_objects.add(object_name) / self._analyzed_objects.add(full_name)
\* that marks only views
MarkViewsOnly(processed, name) ==
  IF name \in ViewNames THEN processed \cup {name} ELSE processed

\* processed_objects.add(object_name) / self._analyzed_objects.add(full_name)
Mark(processed, name) == processed \cup {name}

\* the loops after `name` was taken from the innermost one
Taken(name) ==
  <<Loop(Head(sa_stack).names \ {name}, Head(sa_stack).nested)>> \o Tail(sa_stack)

\* the loops after `name` was taken and found to be a view: the loop over
\* the names of its definition is entered
Entered(name) ==
  IF name \in ViewNames THEN <<Loop(sa_views[name], TRUE)>> \o Taken(name)
  ELSE Taken(name)

\* the names reported so far
Reported == {sa_out[i] : i \in 1..Len(sa_out)}

SchemaInit ==
  /\ sa_mode \in {"utils", "services"}
  /\ sa_views \in [ViewNames -> SUBSET ObjectNames]
  /\ sa_input \in SUBSET ObjectNames \ {{}}
  /\ sa_stack = <<Loop(sa_input, FALSE)>>
  /\ sa_processed = {}
  /\ sa_out = <<>>
  /\ NonSchemaIdle

\* utils: one call of _process_table_or_view from the loop of
\* get_create_statements or from the loop over dependent_tables.  A name
\* already processed returns at once; otherwise it is marked and gets its
\* entry of create_statements (the CREATE VIEW text, the table structure or
\* a warning), and a view goes on to its dependent tables
_process_table_or_view ==
  /\ sa_mode = "utils"
  /\ sa_stack # <<>>
  /\ \E object_name \in Head(sa_stack).names :
       IF object_name \in sa_processed
       THEN /\ sa_stack' = Taken(object_name)
            /\ UNCHANGED <<sa_processed, sa_out>>
       ELSE /\ sa_processed' = Mark(sa_processed, object_name)
            /\ sa_out' = Append(sa_out, object_name)
            /\ sa_stack' = Entered(object_name)
  /\ UNCHANGED <<sa_mode, sa_views, sa_input>>
  /\ UNCHANGED nonSchemaVars

\* services: one call of _get_table_info from the loop of
\* analyze_sql_schema or of _analyze_view_dependencies.  It returns None for
\* a name already analysed and for a name sys.objects does not have;
\* otherwise the name is marked and its TableInfo is added to the result:
\* always from the loop of analyze_sql_schema, unless an entry with the same
\* full_name is there from a view definition.  A view goes on to the names
\* of its definition
_get_table_info ==
  /\ sa_mode = "services"
  /\ sa_stack # <<>>
  /\ \E table_ref \in Head(sa_stack).names :
       IF table_ref \in sa_processed
       THEN /\ sa_stack' = Taken(table_ref)
            /\ UNCHANGED <<sa_processed, sa_out>>
       ELSE /\ sa_processed' = Mark(sa_processed, table_ref)
            /\ IF table_ref \notin ViewNames \cup TableNames
               THEN /\ sa_stack' = Taken(table_ref)
                    /\ UNCHANGED sa_out
               ELSE /\ sa_out' = IF Head(sa_stack).nested /\ table_ref \in Reported
                                 THEN sa_out
                                 ELSE Append(sa_out, table_ref)
                    /\ sa_stack' = Entered(table_ref)
  /\ UNCHANGED <<sa_mode, sa_views, sa_input>>
  /\ UNCHANGED nonSchemaVars

\* a loop has no name left: the call that ran it returns
LoopEnds ==
  /\ sa_stack # <<>>
  /\ Head(sa_stack).names = {}
  /\ sa_stack' = Tail(sa_stack)
  /\ UNCHANGED <<sa_mode, sa_views, sa_input, sa_processed, sa_out>>
  /\ UNCHANGED nonSchemaVars

SchemaNext ==
  \/ _process_table_or_view
  \/ _get_table_info
  \/ LoopEnds

SchemaSpec == SchemaInit /\ [][SchemaNext]_vars

\* the analyzer keeps running while it has a loop to go on with
SchemaRunSpec == SchemaSpec /\ WF_vars(SchemaNext)

\* the analysis has returned
AnalysisDone == sa_stack = <<>>

\* the objects the analysis has to report: every name it looks at for
\* utils (a name without object gets a warning entry), every object of the
\* catalog among them for services
ToReport ==
  IF sa_mode = "utils" THEN Reachable
  ELSE Reachable \cap (ViewNames \cup TableNames)

MaxMenuId == 5

\* default_menus of init_default_menu_config, in insertion order
default_menus ==
  << [key |-> "/custom-query", label |-> "Custom query"],
     [key |-> "/query-history", label |-> "Query history"],
     [key |-> "/settings", label |-> "Settings"] >>

\* menu keys a client may send
MenuKeys == {"/a", "/settings"}

\* UNIQUE(key) of menu_configurations: no row other than `except` has it
MenuKeyFree(key, except) == \A m \in menus : m.id # except => m.key # key

\* a menu row
MenuRow(id, key, label, enabled) ==
  [id |-> id, key |-> key, label |-> label, enabled |-> enabled]

\* the three INSERTs of init_default_menu_config, one transaction: the
\* table with the default rows, unchanged when an INSERT raises on the
\* UNIQUE key
InsertDefaults ==
  IF \E i \in 1..Len(default_menus) : ~MenuKeyFree(default_menus[i].key, 0) THEN menus
  ELSE menus \cup {MenuRow(menu_seq + i, default_menus[i].key, default_menus[i].label, TRUE) :
                     i \in 1..Len(default_menus)}

\* init_default_menu_config with the count check left out
AlwaysInsert(count) == FALSE

\* init_default_menu_config: SELECT COUNT(*) FROM menu_configurations and
\* the early return for count > 0
SkipDefaults(count) == count > 0

\* init_default_menu_config: the table when it returns
init_default_menu_config ==
  IF SkipDefaults(Cardinality(menus)) THEN menus ELSE InsertDefaults

\* the tables exist and the menu table is empty; database_servers is empty
\* or holds a server a client has created
MenuInit ==
  /\ menus = {}
  /\ menu_seq = 0
  /\ menu_call = [op |-> "none"]
  /\ servers \in {[i \in ServerIds |-> NoneV],
                  [i \in ServerIds |->
                     IF i = 1 THEN [id |-> 1, name |-> "A", port |-> 1433, is_enabled |-> TRUE,
                                    description |-> NoneV, updated_at |-> 0]
                     ELSE NoneV]}
  /\ settings = [k \in SettingKeys |-> NoneV]
  /\ cfg_call = [op |-> "none"]
  /\ CoreIdle /\ SavedIdle /\ SchemaIdle /\ ParseIdle /\ DriverIdle /\ LoopIdle
  /\ SharedIdle

\* init_database at application start: CREATE TABLE IF NOT EXISTS for every
\* table, init_default_menu_config, and init_default_database_servers, which
\* only counts the servers
init_database ==
  /\ menus # {} \/ menu_seq + Len(default_menus) <= MaxMenuId
  /\ menus' = init_default_menu_config
  /\ menu_seq' = IF menus' = menus THEN menu_seq ELSE menu_seq + Len(default_menus)
  /\ menu_call' = [op |-> "init_database"]
  /\ UNCHANGED nonMenuVars

\* POST /settings/menu
create_menu_item ==
  \E key \in MenuKeys :
    /\ menu_seq < MaxMenuId
    /\ IF MenuKeyFree(key, 0)
       THEN /\ menus' = menus \cup {MenuRow(menu_seq + 1, key, "New", TRUE)}
            /\ menu_seq' = menu_seq + 1
       ELSE UNCHANGED <<menus, menu_seq>>
    /\ menu_call' = [op |-> "create_menu_item", key |-> key,
                     status |-> IF MenuKeyFree(key, 0) THEN 200 ELSE 400]
    /\ UNCHANGED nonMenuVars

\* PUT /settings/menu/{menu_id} with the fields label and enabled
update_menu_item ==
  \E menu_id \in 1..MaxMenuId, label \in {NoneV, StrV("Renamed")},
     enabled \in {NoneV, BoolV(FALSE)} :
    /\ menus' = IF label = NoneV /\ enabled = NoneV THEN menus
                ELSE {IF m.id # menu_id THEN m
                      ELSE [m EXCEPT !.label = IF label = NoneV THEN @ ELSE label.s,
                                     !.enabled = IF enabled = NoneV THEN @ ELSE enabled.b] :
                      m \in menus}
    /\ menu_call' = [op |-> "update_menu_item", menu_id |-> menu_id,
                     status |-> IF \E m \in menus : m.id = menu_id THEN 200 ELSE 404]
    /\ UNCHANGED menu_seq
    /\ UNCHANGED nonMenuVars

\* DELETE /settings/menu/{menu_id}
delete_menu_item ==
  \E menu_id \in 1..MaxMenuId :
    /\ menus' = {m \in menus : m.id # menu_id}
    /\ menu_call' = [op |-> "delete_menu_item", menu_id |-> menu_id,
                     status |-> IF \E m \in menus : m.id = menu_id THEN 200 ELSE 404]
    /\ UNCHANGED menu_seq
    /\ UNCHANGED nonMenuVars

MenuNext ==
  \/ init_database
  \/ create_menu_item
  \/ update_menu_item
  \/ delete_menu_item

MenuSpec == MenuInit /\ [][MenuNext]_vars

\* the default rows with the ids after `seq`
DefaultRowsAfter(seq) ==
  {MenuRow(seq + i, default_menus[i].key, default_menus[i].label, TRUE) :
     i \in 1..Len(default_menus)}

\* C18: a run of the bootstrap inserts the default menu rows when the menu
\* table is empty at that moment, leaves the menu table as it is otherwise,
\* and leaves every other table as it is
C18_BootstrapOnlyFillsEmptyMenu ==
  [][menu_call'.op = "init_database" =>
       /\ menus' = IF menus = {} THEN DefaultRowsAfter(menu_seq) ELSE menus
       /\ servers' = servers
       /\ settings' = settings
       /\ saved_queries' = saved_queries
       /\ forms' = forms
       /\ history' = history]_vars

\* the bootstrap has run on a menu table that held one row made by a
\* client, after an earlier run had filled it, with a server stored
C18_Witness ==
  /\ menu_call.op = "init_database"
  /\ \E m \in menus : m.key = "/a"
  /\ Cardinality(menus) = 1
  /\ menu_seq >= 4
  /\ servers[1] # NoneV


(***************************************************************************)
(* SQL parameter parser: parse_sql_parameters                              *)
(***************************************************************************)

\* self.param_pattern: @(\w+)
param_pattern == <<Lit("@"), Plus("w")>>

\* self.field_type_rules before the catch-all '.*': the alternatives of each
\* pattern and the FieldType it gives, in the dict's insertion order
field_type_rules ==
  << [alts |-> {"id", "count", "num", "number", "age", "year", "amount",
                "price", "rate", "percent"},
      field_type |-> "number"],
     [alts |-> {"email", "mail"}, field_type |-> "email"],
     [alts |-> {"date", "time", "created", "updated", "birth", "start", "end"},
      field_type |-> "date"],
     [alts |-> {"status", "type", "category", "level", "role", "gender",
                "state"},
      field_type |-> "select"],
     [alts |-> {"description", "comment", "note", "remark", "content", "text"},
      field_type |-> "textarea"] >>

\* re.match(pattern, param_name) for a (?i)(a|b|...) pattern: re.match
\* only matches at the beginning of the string
RuleMatches(rule, param_name) ==
  \E a \in rule.alts : MatchesAtIC(param_name, 1, a)

\* _infer_field_type: the first rule that matches; '.*' matches every name
_infer_field_type(param_name) ==
  LET hits == {i \in 1..Len(field_type_rules) :
                 RuleMatches(field_type_rules[i], param_name)}
  IN  IF hits = {} THEN "text" ELSE field_type_rules[Least(hits)].field_type

\* self.match_type_rules after pattern.replace('@\\w+', re.escape(parameter));
\* re.escape leaves '@', letters, digits and '_' as they are
match_type_rules(parameter) ==
  << [re |-> <<Lit("LIKE"), Plus("s"), Opt("quote"), Lit("%"), Star("any"),
               Lit(parameter), Star("any"), Lit("%"), Opt("quote")>>,
      match_type |-> "like"],
     [re |-> <<Lit("LIKE"), Plus("s"), Opt("quote"), Lit(parameter), Lit("%"),
               Opt("quote")>>,
      match_type |-> "start_with"],
     [re |-> <<Lit("LIKE"), Plus("s"), Opt("quote"), Lit("%"), Lit(parameter),
               Opt("quote")>>,
      match_type |-> "end_with"],
     [re |-> <<Lit(">="), Star("s"), Lit(parameter)>>,
      match_type |-> "greater_equal"],
     [re |-> <<Lit(">"), Star("s"), Lit(parameter)>>,
      match_type |-> "greater"],
     [re |-> <<Lit("<="), Star("s"), Lit(parameter)>>,
      match_type |-> "less_equal"],
     [re |-> <<Lit("<"), Star("s"), Lit(parameter)>>,
      match_type |-> "less"],
     [re |-> <<Lit("BETWEEN"), Plus("s"), Lit(parameter), Plus("s"),
               Lit("AND"), Plus("s"), Lit(parameter)>>,
      match_type |-> "between"],
     [re |-> <<Lit("IN"), Star("s"), Lit("("), Star("s"), Lit(parameter),
               Star("s"), Lit(")")>>,
      match_type |-> "in_list"],
     [re |-> <<Lit("="), Star("s"), Lit(parameter)>>,
      match_type |-> "exact"] >>

\* the lines of the template that contain the parameter, stripped
param_contexts(parameter, sql_template) ==
  LET lines == split(sql_template, "\n")
  IN  SelectSeq([i \in 1..Len(lines) |-> strip(lines[i])],
                LAMBDA line : Contains(line, parameter))

\* the first rule that re.search finds in one context, 0 when none does
FirstRule(rules, context) ==
  LET hits == {i \in 1..Len(rules) : re_search(rules[i].re, context)}
  IN  IF hits = {} THEN 0 ELSE Least(hits)

\* _infer_match_type: first context with a hit, its first rule; else EXACT
_infer_match_type(parameter, sql_template) ==
  LET rules == match_type_rules(parameter)
      contexts == param_contexts(parameter, sql_template)
      hits == {c \in 1..Len(contexts) : FirstRule(rules, contexts[c]) # 0}
  IN  IF hits = {} THEN "exact"
      ELSE rules[FirstRule(rules, contexts[Least(hits)])].match_type

\* the list without repeats, first occurrences kept in order
Dedupe(names) ==
  SelectSeq([i \in 1..Len(names) |->
               IF \E j \in 1..(i - 1) : names[j] = names[i]
               THEN "" ELSE names[i]],
            LAMBDA n : n # "")

\* _extract_parameters: '@' + group(1) of every match is the whole match
_extract_parameters(sql_template) ==
  Dedupe(re_findall(param_pattern, sql_template))

\* str.find: 0-based position of the first occurrence, -1 when absent
find(s, t) ==
  LET at == {p \in 1..Len(s) : MatchesAt(s, p, t)}
  IN  IF at = {} THEN -1 ELSE Least(at) - 1

\* _generate_field_suggestion: the fields of QueryFormField that depend on
\* the template (label, placeholder, validation, data_source are left out)
_generate_field_suggestion(parameter, sql_template) ==
  [parameter |-> parameter,
   field_type |-> _infer_field_type(SubSeq(parameter, 2, Len(parameter))),
   match_type |-> _infer_match_type(parameter, sql_template),
   order |-> 0]

\* list.sort(key=...) is stable: position i goes to rank r when r - 1
\* elements have a smaller key, or the same key and a smaller position
SortByFind(fields, sql_template) ==
  LET key(i) == find(sql_template, fields[i].parameter)
      before(i) == {j \in 1..Len(fields) :
                      \/ key(j) < key(i)
                      \/ key(j) = key(i) /\ j < i}
  IN  [r \in 1..Len(fields) |->
         fields[CHOOSE i \in 1..Len(fields) : Cardinality(before(i)) = r - 1]]

\* parse_sql_parameters: the suggested_fields of the SQLParseResult
parse_sql_parameters(sql_template) ==
  LET parameters == _extract_parameters(sql_template)
      suggested == [i \in 1..Len(parameters) |->
                      _generate_field_suggestion(parameters[i], sql_template)]
      sorted == SortByFind(suggested, sql_template)
  IN  [i \in 1..Len(sorted) |-> [sorted[i] EXCEPT !.order = i]]

\* parameter names of the templates explored
ParseNames == {"min_age", "age", "age_min", "user_id", "status", "name"}

\* the condition written around one parameter
Conditions(n) ==
  { ">= @" \o n, "> @" \o n, "<= @" \o n, "< @" \o n, "= @" \o n,
    "LIKE '%@" \o n \o "%'", "LIKE '@" \o n \o "%'", "LIKE '%@" \o n \o "'",
    "IN (@" \o n \o ")", "BETWEEN @" \o n \o " AND @" \o n }

\* templates with three parameters, one name a prefix of another
PrefixNameTemplates ==
  { "SELECT * FROM t WHERE a = @id2 AND b = @name AND c = @id",
    "SELECT * FROM t WHERE a = @id AND b = @name AND c = @id2",
    "SELECT * FROM t WHERE a = @name AND b = @id2 AND c = @id" }

\* one-line templates, two-line templates with a second parameter, and
\* the templates with three parameters
ParseTemplates ==
  UNION { { "SELECT * FROM users WHERE age " \o c : c \in Conditions(n) } :
          n \in ParseNames }
  \cup { "SELECT * FROM users\nWHERE name = @name\n  AND age " \o c :
         c \in Conditions("min_age") }
  \cup PrefixNameTemplates

ParseInit ==
  /\ p_template \in ParseTemplates
  /\ p_result = NoneV
  /\ NonParseIdle

\* POST /parse-sql -> QueryFormService.parse_sql_template ->
\* SQLParameterParser.parse_sql_parameters
parse_sql_template ==
  /\ p_result = NoneV
  /\ p_result' = [t |-> "fields", v |-> parse_sql_parameters(p_template)]
  /\ UNCHANGED <<p_template, nonParseVars>>

ParseNext == parse_sql_template

ParseSpec == ParseInit /\ [][ParseNext]_vars

\* the template contains `WHERE age >= @min_age`
HasMinAgeCondition == Contains(p_template, "WHERE age >= @min_age")

\* C19: after parsing a template that contains `WHERE age >= @min_age`, the
\* suggested fields hold a field for @min_age whose field_type is NUMBER and
\* whose match_type is GREATER_EQUAL
C19_MinAgeNumberGreaterEqual ==
  (p_result.t = "fields" /\ HasMinAgeCondition) =>
    \E i \in 1..Len(p_result.v) :
      /\ p_result.v[i].parameter = "@min_age"
      /\ p_result.v[i].field_type = "number"
      /\ p_result.v[i].match_type = "greater_equal"

\* what the parser does give for that template
C19_MinAgeIsText ==
  (p_result.t = "fields" /\ HasMinAgeCondition) =>
    \E i \in 1..Len(p_result.v) :
      /\ p_result.v[i].parameter = "@min_age"
      /\ p_result.v[i].field_type = "text"
      /\ p_result.v[i].match_type = "greater_equal"


(***************************************************************************)
(* Referential integrity of the execution history                          *)
(***************************************************************************)

\* the form ids that have a row in query_forms
ExistingFormIds == {id \in DOMAIN forms : forms[id] # NoneV}

\* C20: after any sequence of execute, soft-delete and hard-delete
\* operations, overlapping ones included, every query_form_history row's
\* form_id is the id of a row of query_forms
C20_HistoryFormExists ==
  \A i \in 1..Len(history) : history[i].form_id \in ExistingFormIds


(***************************************************************************)
(* The record an update answers with                                       *)
(***************************************************************************)

\* request r ends a toggle-status with 200 in this step: update_form has
\* committed its UPDATE and the endpoint answers with the record it returned
ToggleAnswers(r) ==
  /\ requests[r].op = "toggle"
  /\ requests[r].pc = "updating"
  /\ requests'[r].pc = "done"
  /\ requests'[r].http = 200

\* C21: the record a successful update returns equals the row as stored once
\* the update has committed: the is_active that toggle-status reports (the
\* is_active of the record update_form returned) is the stored is_active
C21_UpdateReturnsStoredRow ==
  [][\A r \in RequestIds :
       ToggleAnswers(r) =>
         requests'[r].value.is_active = forms'[requests[r].form_id].is_active]_vars


(***************************************************************************)
(* The current server selection and the stored servers                     *)
(***************************************************************************)

\* the names of the stored servers
StoredServerNames == {servers[i].name : i \in StoredServerIds}

\* C22: whatever servers were created and updated and whatever selection
\* was set, the value get_current_server_selection returns is None or the
\* name of a server that is stored
C22_SelectionIsStoredServer ==
  cfg_call.op = "get_current_server_selection" =>
    \/ cfg_call.value = NoneV
    \/ cfg_call.value.s \in StoredServerNames


(***************************************************************************)
(* Elision of the condition that follows WHERE                             *)
(***************************************************************************)

\* the templates whose first condition after WHERE is on @name and whose
\* second is `status = @status`
NameFirstTemplates == {TplLikeFirst, TplLines}

\* the call has returned; name was given empty and status a value
FirstConditionElided ==
  /\ b_pc = "returned"
  /\ b_template \in NameFirstTemplates
  /\ DictGet(b_params, "name") \in {NoneV, StrV("")}
  /\ DictGet(b_params, "@status") \notin {Absent, NoneV, StrV("")}

\* C23: when the first condition after WHERE is removed for its empty
\* parameter and the status condition remains, the built SQL has WHERE in
\* front of the remaining condition, and the condition does not follow the
\* table name with a bare AND/OR or with no keyword
C23_WhereKeptBeforeRest ==
  FirstConditionElided =>
    /\ Contains(b_sql, "WHERE status = ")
    /\ ~re_search(<<Lit("FROM t"), Plus("s"), Alt(<<"AND", "OR">>), Plus("s")>>, b_sql)
    /\ ~Contains(b_sql, "FROM t status")


(***************************************************************************)
(* Quoting of string values                                                *)
(***************************************************************************)

\* the value O'Neil as it is written into the SQL, its quote doubled
EscapedONeil == replace("O'Neil", "'", "''")

\* position p of sql lies inside a single-quoted literal: an odd number of
\* quotes precedes it (a doubled quote counts twice)
InsideLiteral(sql, p) ==
  Cardinality({i \in 1..(p - 1) : Ch(sql, i) = "'"}) % 2 = 1

\* C24: in the built SQL every occurrence of a string value lies inside a
\* single-quoted literal with its quotes doubled, also when the parameter
\* stands both inside a '%...%' LIKE literal and as a bare placeholder
C24_StringValuesQuoted ==
  b_pc = "returned" =>
    \A p \in 1..Len(b_sql) :
      MatchesAt(b_sql, p, EscapedONeil) => InsideLiteral(b_sql, p)


(***************************************************************************)
(* Placeholders whose names share a prefix                                 *)
(***************************************************************************)

TplIdThenId2 == "SELECT * FROM t WHERE a = @id AND b = @id2"

TplId2ThenId == "SELECT * FROM t WHERE b = @id2 AND a = @id"

PrefixTemplates == {TplIdThenId2, TplId2ThenId}

\* the values given to @id and @id2
PrefixValues == {IntV(1), IntV(2), StrV("x"), StrV("y")}

\* request.params with the keys "id" and "id2", in either insertion order
PrefixParams ==
  {Entry("id", a) \o Entry("id2", b) : a \in PrefixValues, b \in PrefixValues}
    \cup {Entry("id2", b) \o Entry("id", a) : a \in PrefixValues, b \in PrefixValues}

PrefixInit ==
  /\ b_template \in PrefixTemplates
  /\ b_params \in PrefixParams
  /\ b_pc = "call"
  /\ b_substituted = ""
  /\ b_sql = ""
  /\ QueryIdle
  /\ FormsIdle
  /\ ExtraIdle

PrefixSpec == PrefixInit /\ [][BuildNext]_vars

\* a value as a SQL literal: a str quoted, a number as its digits
Written(v) == IF v.t = "str" THEN "'" \o v.s \o "'" ELSE ToString(v.n)

\* the SQL in which every placeholder has its own parameter's value
OwnValues(template, params) ==
  IF template = TplIdThenId2
  THEN "SELECT * FROM t WHERE a = " \o Written(DictGet(params, "id"))
         \o " AND b = " \o Written(DictGet(params, "id2"))
  ELSE "SELECT * FROM t WHERE b = " \o Written(DictGet(params, "id2"))
         \o " AND a = " \o Written(DictGet(params, "id"))

\* C25: substituting @id leaves @id2 intact, so that each placeholder ends
\* with its own parameter's value, whatever the order of the parameters
C25_WholeTokenSubstitution ==
  b_pc = "returned" => b_sql = OwnValues(b_template, b_params)


(***************************************************************************)
(* SQLServerQueryManager: operations on a raw pyodbc connection            *)
(***************************************************************************)

\* the statements of one SQL text handled by the multi-statement path
MaxStatements == 3

StatementKinds == {"SELECT", "INSERT", "UPDATE", "DELETE"}

ModifyKinds == {"INSERT", "UPDATE", "DELETE"}

\* the SQL texts, as the sequence of their statements
Batches == UNION {[1..n -> StatementKinds] : n \in 1..MaxStatements}

\* the entry appended for the result at result_index: a result set when
\* cursor.description is set, the affected-row count otherwise
ResultEntry(result_index, kind) ==
  IF kind = "SELECT"
  THEN [type |-> "resultset", index |-> result_index]
  ELSE [type |-> "rowcount", index |-> result_index]

\* the statement the cursor is at
NextIndex == Len(d_results) + 1

DriverInit ==
  /\ d_op \in {"test", "raw", "multiple"}
  /\ d_batch \in IF d_op = "test" THEN {<<"SELECT">>}
                 ELSE IF d_op = "raw" THEN {<<k>> : k \in StatementKinds}
                 ELSE Batches
  /\ d_pc = "start"
  /\ d_conn = "none"
  /\ d_pending = {}
  /\ d_remote = {}
  /\ d_results = <<>>
  /\ d_outcome = "none"
  /\ NonDriverIdle

\* pyodbc.connect(connection_string): autocommit is off by default.  When
\* it raises, no connection was opened: test_connection_with_string
\* returns False, the other operations raise
Connect ==
  /\ d_pc = "start"
  /\ \E ok \in BOOLEAN :
       IF ok
       THEN /\ d_conn' = "open"
            /\ d_pc' = "connected"
            /\ UNCHANGED d_outcome
       ELSE /\ d_pc' = "done"
            /\ d_outcome' = IF d_op = "test" THEN "returned False" ELSE "raised"
            /\ UNCHANGED d_conn
  /\ UNCHANGED <<d_op, d_batch, d_pending, d_remote, d_results>>
  /\ UNCHANGED nonDriverVars

\* _test_sync_connection after the connect: cursor, SELECT 1, fetchone,
\* cursor.close(), conn.close(), return True; an exception on the way is
\* caught by `except Exception`, which returns False
TestSelect ==
  /\ d_pc = "connected"
  /\ d_op = "test"
  /\ \E ok \in BOOLEAN :
       IF ok
       THEN /\ d_conn' = "closed"
            /\ d_outcome' = "returned True"
       ELSE /\ d_conn' = d_conn
            /\ d_outcome' = "returned False"
  /\ d_pc' = "done"
  /\ UNCHANGED <<d_op, d_batch, d_pending, d_remote, d_results>>
  /\ UNCHANGED nonDriverVars

\* cursor = conn.cursor(), the statement before the try block of
\* sync_execute_raw and sync_execute_multiple: when it raises, the finally
\* clause is not reached
OpenCursor ==
  /\ d_pc = "connected"
  /\ d_op \in {"raw", "multiple"}
  /\ \E ok \in BOOLEAN :
       IF ok
       THEN /\ d_pc' = "executing"
            /\ UNCHANGED d_outcome
       ELSE /\ d_pc' = "done"
            /\ d_outcome' = "raised"
  /\ UNCHANGED <<d_op, d_batch, d_conn, d_pending, d_remote, d_results>>
  /\ UNCHANGED nonDriverVars

\* the finally clause: cursor.close(); conn.close().  No commit() is called
\* anywhere, and closing a connection discards its open transaction
CloseInFinally ==
  /\ d_conn' = "closed"
  /\ d_pending' = {}
  /\ d_remote' = d_remote

\* cursor.execute / cursor.nextset reach the next statement and its result
\* is read: a modification joins the open transaction.  When the driver
\* raises, or when sync_execute_raw reads cursor.description of a
\* statement that has no result set, the finally clause runs and the
\* exception leaves the operation
ExecuteStatement ==
  /\ d_pc = "executing"
  /\ NextIndex <= Len(d_batch)
  /\ \E ok \in BOOLEAN :
       LET kind == d_batch[NextIndex]
       IN  IF ok /\ ~(d_op = "raw" /\ kind \in ModifyKinds)
           THEN /\ d_results' = Append(d_results, ResultEntry(NextIndex, kind))
                /\ d_pending' = IF kind \in ModifyKinds
                                THEN d_pending \cup {NextIndex} ELSE d_pending
                /\ UNCHANGED <<d_pc, d_conn, d_remote, d_outcome>>
           ELSE /\ CloseInFinally
                /\ d_pc' = "done"
                /\ d_outcome' = "raised"
                /\ UNCHANGED d_results
  /\ UNCHANGED <<d_op, d_batch>>
  /\ UNCHANGED nonDriverVars

\* no result is left: `return data` / `return results`, through the
\* finally clause
ReturnResults ==
  /\ d_pc = "executing"
  /\ NextIndex > Len(d_batch)
  /\ CloseInFinally
  /\ d_pc' = "done"
  /\ d_outcome' = "returned"
  /\ UNCHANGED <<d_op, d_batch, d_results>>
  /\ UNCHANGED nonDriverVars

DriverNext ==
  \/ Connect
  \/ TestSelect
  \/ OpenCursor
  \/ ExecuteStatement
  \/ ReturnResults

DriverSpec == DriverInit /\ [][DriverNext]_vars

\* C26: when the multi-statement path has returned, every affected-row
\* entry it reports is for a modification that is committed on the server
C26_ReportedChangesCommitted ==
  (d_op = "multiple" /\ d_pc = "done" /\ d_outcome = "returned") =>
    \A i \in 1..Len(d_results) :
      d_results[i].type = "rowcount" => d_results[i].index \in d_remote

\* C27: when an operation has returned or raised, the connection it opened
\* is closed
C27_ConnectionClosedAtEnd ==
  d_pc = "done" => d_conn # "open"


(***************************************************************************)
(* The event loop and the blocking driver calls                            *)
(***************************************************************************)

\* the requests handled at the same time
MaxTasks == 3

\* worker threads of the loop's default executor (min(32, cpu_count + 4) in
\* the interpreter)
PoolSize == 1

TaskIds == 1..MaxTasks

NewTask(kind) == [kind |-> kind, pc |-> "start"]

\* a blocking driver call made directly in the coroutine
CalledInline(sync_function) == "loop"

\* loop.run_in_executor(None, sync_function): the thread the blocking
\* function runs on
run_in_executor(sync_function) == "worker"

LoopInit ==
  /\ l_tasks \in [TaskIds -> {NewTask("remote"), NewTask("store")}]
  /\ l_hung \in SUBSET {t \in TaskIds : l_tasks[t].kind = "remote"}
  /\ l_loop = 0
  /\ l_workers = {}
  /\ NonLoopIdle

\* execute_query / execute_raw_sql_with_connection /
\* execute_multiple_statements_with_connection up to their await: the
\* synchronous function is handed to the executor and the task suspends
IssueRemote(t) ==
  /\ l_tasks[t].kind = "remote"
  /\ l_tasks[t].pc = "start"
  /\ l_loop = 0
  /\ IF run_in_executor("sync_execute") = "worker"
     THEN /\ l_tasks' = [l_tasks EXCEPT ![t].pc = "queued"]
          /\ UNCHANGED l_loop
     ELSE /\ l_tasks' = [l_tasks EXCEPT ![t].pc = "running"]
          /\ l_loop' = t
  /\ UNCHANGED <<l_workers, l_hung>>
  /\ UNCHANGED nonLoopVars

\* a free worker thread of the executor takes the function
WorkerStarts(t) ==
  /\ l_tasks[t].pc = "queued"
  /\ Cardinality(l_workers) < PoolSize
  /\ l_workers' = l_workers \cup {t}
  /\ l_tasks' = [l_tasks EXCEPT ![t].pc = "running"]
  /\ UNCHANGED <<l_loop, l_hung>>
  /\ UNCHANGED nonLoopVars

\* the driver call returns (no timeout is set: a hung query never does)
RemoteReturns(t) ==
  /\ l_tasks[t].pc = "running"
  /\ t \notin l_hung
  /\ l_tasks' = [l_tasks EXCEPT ![t].pc = IF l_loop = t THEN "done" ELSE "returned"]
  /\ l_workers' = l_workers \ {t}
  /\ l_loop' = IF l_loop = t THEN 0 ELSE l_loop
  /\ UNCHANGED l_hung
  /\ UNCHANGED nonLoopVars

\* the loop resumes the task with the result of its future
ResumeRemote(t) ==
  /\ l_tasks[t].pc = "returned"
  /\ l_loop = 0
  /\ l_tasks' = [l_tasks EXCEPT ![t].pc = "done"]
  /\ UNCHANGED <<l_loop, l_workers, l_hung>>
  /\ UNCHANGED nonLoopVars

\* a request on the embedded store up to its await: the statement goes to
\* the thread of its own aiosqlite connection
IssueStore(t) ==
  /\ l_tasks[t].kind = "store"
  /\ l_tasks[t].pc = "start"
  /\ l_loop = 0
  /\ l_tasks' = [l_tasks EXCEPT ![t].pc = "in store"]
  /\ UNCHANGED <<l_loop, l_workers, l_hung>>
  /\ UNCHANGED nonLoopVars

\* the connection's thread has run the statement
StoreReturns(t) ==
  /\ l_tasks[t].pc = "in store"
  /\ l_tasks' = [l_tasks EXCEPT ![t].pc = "store returned"]
  /\ UNCHANGED <<l_loop, l_workers, l_hung>>
  /\ UNCHANGED nonLoopVars

\* the loop resumes the task, which answers its request
ResumeStore(t) ==
  /\ l_tasks[t].pc = "store returned"
  /\ l_loop = 0
  /\ l_tasks' = [l_tasks EXCEPT ![t].pc = "done"]
  /\ UNCHANGED <<l_loop, l_workers, l_hung>>
  /\ UNCHANGED nonLoopVars

\* the steps of one request
TaskStep(t) ==
  \/ IssueRemote(t)
  \/ WorkerStarts(t)
  \/ RemoteReturns(t)
  \/ ResumeRemote(t)
  \/ IssueStore(t)
  \/ StoreReturns(t)
  \/ ResumeStore(t)

LoopNext == \E t \in TaskIds : TaskStep(t)

LoopSpec == LoopInit /\ [][LoopNext]_vars

\* the loop runs every ready task and every thread runs what it was given
LoopRunSpec == LoopSpec /\ \A t \in TaskIds : WF_vars(TaskStep(t))

\* a remote query that never returns is running
HungQueryRunning == \E t \in l_hung : l_tasks[t].pc = "running"

\* C28: a remote query that never returns suspends only its own task: the
\* loop thread stays free, and every request that needs only the embedded
\* store completes
C28_StoreRequestsComplete ==
  /\ [](l_loop = 0)
  /\ \A t \in TaskIds : (l_tasks[t].kind = "store") ~> (l_tasks[t].pc = "done")

\* a store request has completed while a query that never returns runs
C28_Witness ==
  /\ HungQueryRunning
  /\ \E t \in TaskIds : l_tasks[t].kind = "store" /\ l_tasks[t].pc = "done"


(***************************************************************************)
(* The shared SchemaAnalyzer under overlapping calls                       *)
(***************************************************************************)

\* analyze_sql_schema calls in progress at the same time
MaxCalls == 2

CallIds == 1..MaxCalls

\* the tables of the catalog, all in schema dbo; the analysed SQL texts
\* refer to them by their bare names
CatalogTables == {"T", "U"}

\* _extract_table_references gives list(set(...)): the names in any order
ReferenceLists == {<<"T">>, <<"U">>, <<"T", "U">>, <<"U", "T">>}

\* full_name of a one-part reference: schema dbo, no database
full_name(table_ref) == "dbo." \o table_ref

NewCall(refs) == [refs |-> refs, pc |-> "new", i |-> 0, out |-> <<>>]

\* the for loop of analyze_sql_schema from reference `from` on, up to the
\* next await: _get_table_info returns None for a name found in
\* _analyzed_objects; the first name not found is added and its object
\* query is issued; with no reference left the call returns
RECURSIVE Proceed(_, _, _)
Proceed(call, from, analyzed) ==
  IF from > Len(call.refs)
  THEN [call |-> [call EXCEPT !.pc = "done", !.i = from], analyzed |-> analyzed]
  ELSE IF full_name(call.refs[from]) \in analyzed
  THEN Proceed(call, from + 1, analyzed)
  ELSE [call |-> [call EXCEPT !.pc = "object info", !.i = from],
        analyzed |-> analyzed \cup {full_name(call.refs[from])}]

SharedInit ==
  /\ sh_analyzed = {}
  /\ sh_calls \in [CallIds -> {NewCall(refs) : refs \in ReferenceLists}]
  /\ NonSharedIdle

\* analyze_sql_schema up to its first await: self._analyzed_objects.clear(),
\* the references are extracted and the loop is entered
StartCall(c) ==
  /\ sh_calls[c].pc = "new"
  /\ LET next == Proceed(sh_calls[c], 1, {})
     IN  /\ sh_calls' = [sh_calls EXCEPT ![c] = next.call]
         /\ sh_analyzed' = next.analyzed
  /\ UNCHANGED nonSharedVars

\* the object query of _get_table_info returns the row of the table; the
\* column query is issued
ObjectInfoReturns(c) ==
  /\ sh_calls[c].pc = "object info"
  /\ sh_calls' = [sh_calls EXCEPT ![c].pc = "columns"]
  /\ UNCHANGED sh_analyzed
  /\ UNCHANGED nonSharedVars

\* the column query returns: the TableInfo is appended to tables and the
\* loop goes on
ColumnsReturn(c) ==
  /\ sh_calls[c].pc = "columns"
  /\ LET call == sh_calls[c]
         reported == [call EXCEPT !.out = Append(@, call.refs[call.i])]
         next == Proceed(reported, call.i + 1, sh_analyzed)
     IN  /\ sh_calls' = [sh_calls EXCEPT ![c] = next.call]
         /\ sh_analyzed' = next.analyzed
  /\ UNCHANGED nonSharedVars

SharedNext ==
  \E c \in CallIds :
    \/ StartCall(c)
    \/ ObjectInfoReturns(c)
    \/ ColumnsReturn(c)

SharedSpec == SharedInit /\ [][SharedNext]_vars

\* the names in a list
Names(list) == {list[i] : i \in 1..Len(list)}

\* C29: each of two overlapping analyze_sql_schema calls on the shared
\* analyzer returns exactly the objects its own SQL refers to
C29_OwnObjectsReturned ==
  \A c \in CallIds :
    sh_calls[c].pc = "done" => Names(sh_calls[c].out) = Names(sh_calls[c].refs)


(***************************************************************************)
(* Order of the suggested fields                                           *)
(***************************************************************************)

\* the parameters of the suggested fields, in the order returned
ReturnedParameters == [i \in 1..Len(p_result.v) |-> p_result.v[i].parameter]

\* C30: the suggested fields come in the order in which each parameter
\* first occurs as a token in the template (the order of
\* _extract_parameters), and their order values are 1, 2, ..., n
C30_FieldsInTokenOrder ==
  p_result.t = "fields" =>
    /\ ReturnedParameters = _extract_parameters(p_template)
    /\ \A i \in 1..Len(p_result.v) : p_result.v[i].order = i

====
